---- MODULE Spec2Model ----
(***************************************************************************)
(* FlowMode: the session tracker's control loop (src/main.rs), the         *)
(* activity store it drives (src/storage.rs), the rule matcher             *)
(* (src/config.rs) and the tray thread that sends it commands              *)
(* (src/tray.rs).                                                          *)
(*                                                                         *)
(* Option<T> is a sequence of length at most one: <<>> is None and <<x>>   *)
(* is Some(x).  Window classes, window titles and rule patterns are        *)
(* sequences of one-character strings, so that lowercasing and substring   *)
(* search are computed.  Timestamps count clock units; UnitsPerSec units   *)
(* make one second (to_rfc3339 keeps the sub-second part of Local::now()). *)
(* A timestamp is stored as RFC 3339 text with the UTC offset in force; a  *)
(* row keeps the instant (started_at) and that offset (started_off).       *)
(*                                                                         *)
(* The tray label today_time (main.rs 161-166, 277-282) is display text    *)
(* derived from the store by a read-only query; it is not part of the      *)
(* state.  TrayCommand::OpenDashboard (main.rs 179-185) is sent by no menu *)
(* entry of tray.rs and changes no state; it has no action.                *)
(***************************************************************************)
EXTENDS Integers, Sequences, FiniteSets, TLC

VARIABLES
    pc,               \* start_daemon's position: "init", "running", "stopped", "failed"; "match" in SpecMatch
    config,           \* Config: idle_timeout_secs and the ordered rule list apps
    rows,             \* the activity table: a set of ActivityRecord
    current_session,  \* Option<i64>, the loop's in-memory session id
    is_tracking,      \* AtomicBool shared with the tray
    is_idle,          \* AtomicBool shared with the tray
    idle_secs,        \* AtomicU64 shared with the tray
    queue,            \* the mpsc channel from the tray to the loop
    trayPc,           \* the tray thread's position inside a menu callback
    now,              \* the wall clock read by Local::now(), as an instant
    tz,               \* the UTC offset Local applies, in seconds
    fpLow,            \* the <<started, ended>> pairs whose julianday difference, times
                      \* 86400, comes out just below the whole number of seconds
    dbLock,           \* the database file's locks: the connections reading it and the
                      \* write waiting for them
    columns,          \* the columns of the activity table in the database file
    timer,            \* web.rs's static POMODORO: the fields of PomodoroTimer
    sleep,            \* the time left on the Sleep future the loop's select! holds
    calls,            \* the PomodoroTimer method each task is in, and where in it
    locks,            \* the writer of each tokio RwLock of PomodoroTimer, if any
    last              \* the last event the loop handled and what it observed

vars == <<pc, config, tz, fpLow, dbLock, columns, timer, rows, current_session, is_tracking, is_idle,
          idle_secs, queue, trayPc, now, sleep, calls, locks, last>>

----------------------------------------------------------------------------
(* Bounds *)

MaxTime == 2
MaxRows == 2
MaxQueue == 1
MaxRules == 2
UnitsPerSec == 2
MaxLen == 3
MaxTokens == 3
MaxDelta == 1
MaxSecs == 2
MaxMins == 2
MaxPomodoros == 5
PollInterval == 2
MaxTicks == 3

----------------------------------------------------------------------------
(* Option *)

None == <<>>
Some(x) == <<x>>
IsSome(o) == o /= <<>>
Unwrap(o) == o[1]

----------------------------------------------------------------------------
(* Strings: to_lowercase and contains *)

Chars == {"a", "A", "b", "B", "x"}

LowerAlpha == <<"a", "b", "c", "d", "e", "f", "g", "h", "i", "j", "k", "l", "m",
    "n", "o", "p", "q", "r", "s", "t", "u", "v", "w", "x", "y", "z">>

UpperAlpha == <<"A", "B", "C", "D", "E", "F", "G", "H", "I", "J", "K", "L", "M",
    "N", "O", "P", "Q", "R", "S", "T", "U", "V", "W", "X", "Y", "Z">>

ToLowerChar(c) ==
    IF \E i \in DOMAIN UpperAlpha : UpperAlpha[i] = c
        THEN LowerAlpha[CHOOSE i \in DOMAIN UpperAlpha : UpperAlpha[i] = c]
        ELSE c

ToUpperChar(c) ==
    IF \E i \in DOMAIN LowerAlpha : LowerAlpha[i] = c
        THEN UpperAlpha[CHOOSE i \in DOMAIN LowerAlpha : LowerAlpha[i] = c]
        ELSE c

to_lowercase(s) == [i \in DOMAIN s |-> ToLowerChar(s[i])]

contains(hay, needle) ==
    \E off \in 0..(Len(hay) - Len(needle)) :
        SubSeq(hay, off + 1, off + Len(needle)) = needle

----------------------------------------------------------------------------
(* config.rs: Config::match_window *)

MatchTypes == {"WindowClass", "WindowTitle", "Process"}

TrackedApp(name, match_type, pattern, category) ==
    [name |-> name, match_type |-> match_type, pattern |-> pattern, category |-> category]

RuleMatchesProcessByTitle(app, class_lower, title_lower) ==
    LET pattern_lower == to_lowercase(app.pattern)
    IN  CASE app.match_type = "WindowClass" -> contains(class_lower, pattern_lower)
          [] app.match_type = "WindowTitle" -> contains(title_lower, pattern_lower)
          [] app.match_type = "Process" -> contains(title_lower, pattern_lower)

\* the closure passed to find (config.rs 147-154)
RuleMatches(app, class_lower, title_lower) ==
    LET pattern_lower == to_lowercase(app.pattern)
    IN  CASE app.match_type = "WindowClass" -> contains(class_lower, pattern_lower)
          [] app.match_type = "WindowTitle" -> contains(title_lower, pattern_lower)
          [] app.match_type = "Process" -> contains(class_lower, pattern_lower)

RECURSIVE findLast(_, _, _)
findLast(apps, class_lower, title_lower) ==
    IF apps = <<>> THEN None
    ELSE LET rest == findLast(Tail(apps), class_lower, title_lower)
         IN  IF IsSome(rest) THEN rest
             ELSE IF RuleMatches(Head(apps), class_lower, title_lower) THEN Some(Head(apps))
             ELSE None

\* self.apps.iter().find(...): the first rule the closure accepts
RECURSIVE find(_, _, _)
find(apps, class_lower, title_lower) ==
    IF apps = <<>> THEN None
    ELSE IF RuleMatches(Head(apps), class_lower, title_lower) THEN Some(Head(apps))
    ELSE find(Tail(apps), class_lower, title_lower)

match_window(cfg, window_class, window_title) ==
    find(cfg.apps, to_lowercase(window_class), to_lowercase(window_title))

----------------------------------------------------------------------------
(* storage.rs: the activity table *)

ActivityRecord(id, app_name, category, window_title, started_at, ended_at, duration_secs) ==
    [id |-> id, app_name |-> app_name, category |-> category,
     window_title |-> window_title, started_at |-> started_at, started_off |-> tz,
     ended_at |-> ended_at, duration_secs |-> duration_secs,
     active_secs |-> 0, passive_secs |-> 0]

\* CAST((julianday(?1) - julianday(started_at)) * 86400 AS INTEGER): julianday
\* is a double counting days, so the product of a difference that is a whole
\* number of seconds may come out just below it (fpLow); the cast truncates
\* toward zero
JulianSecs(ended, started) ==
    LET d == ended - started
        whole == (IF d >= 0 THEN d ELSE -d) \div UnitsPerSec
        secs == IF d /= 0 /\ d % UnitsPerSec = 0 /\ <<started, ended>> \in fpLow
                    THEN whole - 1 ELSE whole
    IN  IF d >= 0 THEN secs ELSE -secs

\* the locks on the database file: the connections holding a SHARED lock for a
\* read in progress, and the write that waits for the EXCLUSIVE lock, if any
NoLocks == [shared |-> {}, writer |-> None]

\* the columns of CREATE TABLE IF NOT EXISTS activity (storage.rs 55-66); the text
\* of started_at is held in two fields, the instant and its offset
LegacyColumns ==
    {"id", "app_name", "category", "window_title", "started_at", "ended_at", "duration_secs"}

\* the columns once the v0.5.0 migration has run (storage.rs 87-88)
CurrentColumns == LegacyColumns \cup {"active_secs", "passive_secs"}

OpenRows(rs) == {r \in rs : r.ended_at = None}

\* conn.last_insert_rowid() of an INTEGER PRIMARY KEY table: one above the largest id
NextRowId(rs) ==
    IF rs = {} THEN 1
    ELSE (CHOOSE m \in {r.id : r \in rs} : \A r \in rs : r.id <= m) + 1

start_activity(rs, app_name, category, window_title, t) ==
    rs \cup {ActivityRecord(NextRowId(rs), app_name, category, window_title, t, None, 0)}

end_activity_noop(rs, id, t) == rs

end_activity(rs, id, t) ==
    {IF r.id = id
        THEN [r EXCEPT !.ended_at = Some(t), !.duration_secs = JulianSecs(t, r.started_at)]
        ELSE r : r \in rs}

\* WHERE ended_at IS NULL ORDER BY started_at DESC LIMIT 1: the rows the query may return
get_active_session(rs) ==
    {r \in OpenRows(rs) : \A o \in OpenRows(rs) : o.started_at <= r.started_at}

close_one_open_session(rs, t) ==
    IF OpenRows(rs) = {} THEN rs
    ELSE end_activity(rs, (CHOOSE r \in OpenRows(rs) : TRUE).id, t)

close_all_sessions(rs, t) ==
    {[r EXCEPT !.ended_at = Some(t), !.duration_secs = JulianSecs(t, r.started_at)] : r \in rs}

close_open_sessions(rs, t) ==
    {IF r.ended_at = None
        THEN [r EXCEPT !.ended_at = Some(t), !.duration_secs = JulianSecs(t, r.started_at)]
        ELSE r : r \in rs}

update_activity_time_set(rs, id, active_delta, passive_delta) ==
    {IF r.id = id
        THEN [r EXCEPT !.active_secs = active_delta, !.passive_secs = passive_delta,
                       !.duration_secs = @ + active_delta + passive_delta]
        ELSE r : r \in rs}

update_activity_time(rs, id, active_delta, passive_delta) ==
    {IF r.id = id
        THEN [r EXCEPT !.active_secs = @ + active_delta, !.passive_secs = @ + passive_delta,
                       !.duration_secs = @ + active_delta + passive_delta]
        ELSE r : r \in rs}

\* CREATE TABLE IF NOT EXISTS activity: a file without the table gets it
CreateTable(cols) == IF cols = {} THEN LegacyColumns ELSE cols

\* a row as a table with the columns cols stores it: INSERT and UPDATE name
\* columns of the CREATE TABLE statement only
Stored(rs, cols) ==
    {[c \in DOMAIN r \cap (cols \cup {"started_off"}) |-> r[c]] : r \in rs}

\* conn.prepare("SELECT active_secs FROM activity LIMIT 1").is_ok()
has_active_secs(cols) == "active_secs" \in cols

\* ALTER TABLE activity ADD COLUMN col INTEGER DEFAULT 0: every row reads 0 in it
AddColumn(rs, col) ==
    {[c \in DOMAIN r \cup {col} |-> IF c = col THEN 0 ELSE r[c]] : r \in rs}

backfill_skipped(rs) == rs

\* UPDATE activity SET active_secs = duration_secs WHERE active_secs = 0 AND duration_secs > 0
Backfill(rs) ==
    {IF r.active_secs = 0 /\ r.duration_secs > 0
        THEN [r EXCEPT !.active_secs = r.duration_secs]
        ELSE r : r \in rs}

open_backfilling(db) ==
    LET cols == CreateTable(db.columns)
    IN  IF has_active_secs(cols) THEN [columns |-> cols, rows |-> Backfill(db.rows)]
        ELSE [columns |-> cols \cup {"active_secs", "passive_secs"},
              rows |-> Backfill(AddColumn(AddColumn(db.rows, "active_secs"), "passive_secs"))]

\* Storage::open(path) on a database file: the table it leaves
open(db) ==
    LET cols == CreateTable(db.columns)
    IN  IF has_active_secs(cols) THEN [columns |-> cols, rows |-> db.rows]
        ELSE [columns |-> cols \cup {"active_secs", "passive_secs"},
              rows |-> Backfill(AddColumn(AddColumn(db.rows, "active_secs"), "passive_secs"))]

\* Duration::days(1), in seconds
SecsPerDay == 86400

UnitsPerDay == SecsPerDay * UnitsPerSec

\* to_rfc3339() of an instant under a UTC offset: the wall-clock reading, then
\* the offset suffix
to_rfc3339(instant, off) == [wall |-> instant + off * UnitsPerSec, off |-> off]

\* byte order of two offset suffixes: "+hh:mm" sorts before "-hh:mm", and
\* within one sign the larger magnitude sorts later
OffsetTextLess(x, y) ==
    IF x >= 0 /\ y >= 0 THEN x < y
    ELSE IF x < 0 /\ y < 0 THEN -x < -y
    ELSE x >= 0

\* a < b as SQLite compares two TEXT values: byte by byte, so the wall-clock
\* readings decide and the offset suffixes only break a tie
TextLess(a, b) ==
    \/ a.wall < b.wall
    \/ a.wall = b.wall /\ OffsetTextLess(a.off, b.off)

\* today.and_hms_opt(0, 0, 0).and_local_timezone(Local), as text
TodayStart(t) ==
    [wall |-> ((t + tz * UnitsPerSec) \div UnitsPerDay) * UnitsPerDay, off |-> tz]

\* start + Duration::days(1), as text
TodayEnd(t) == [wall |-> TodayStart(t).wall + UnitsPerDay, off |-> tz]

\* WHERE started_at >= ?1 AND started_at < ?2
InToday(r, t) ==
    /\ ~TextLess(to_rfc3339(r.started_at, r.started_off), TodayStart(t))
    /\ TextLess(to_rfc3339(r.started_at, r.started_off), TodayEnd(t))

\* DELETE FROM activity WHERE started_at >= ?1 AND started_at < ?2
reset_today(rs, t) == {r \in rs : ~InToday(r, t)}

RECURSIVE SumDuration(_)
\* SUM(duration_secs) over a group of rows
SumDuration(rs) ==
    IF rs = {} THEN 0
    ELSE LET r == CHOOSE x \in rs : TRUE
         IN  r.duration_secs + SumDuration(rs \ {r})

RECURSIVE SumColumn(_, _)
\* the sum of one column over a set of rows
SumColumn(rs, col) ==
    IF rs = {} THEN 0
    ELSE LET r == CHOOSE x \in rs : TRUE
         IN  r[col] + SumColumn(rs \ {r}, col)

SecsPerHour == SecsPerDay \div 24

\* DateTime::parse_from_rfc3339(&started_str), then dt.hour(): the hour of the
\* wall-clock reading the text carries
HourOf(r) ==
    (to_rfc3339(r.started_at, r.started_off).wall % UnitsPerDay) \div (SecsPerHour * UnitsPerSec)

RowsOfToday(rs, t) == {r \in rs : InToday(r, t)}

\* get_today_hourly: one entry per hour that has a row; the vector is sorted by
\* hour and holds each hour once, so it is the set of its entries
get_today_hourly(rs, t) ==
    {[hour |-> h, total_secs |-> SumColumn({r \in RowsOfToday(rs, t) : HourOf(r) = h}, "duration_secs")] :
        h \in {HourOf(r) : r \in RowsOfToday(rs, t)}}

get_today_hourly_detailed(rs, t) ==
    {[hour |-> h,
      active_secs |-> SumColumn({r \in RowsOfToday(rs, t) : HourOf(r) = h}, "active_secs"),
      passive_secs |-> SumColumn({r \in RowsOfToday(rs, t) : HourOf(r) = h}, "passive_secs")] :
        h \in {HourOf(r) : r \in RowsOfToday(rs, t)}}

\* web.rs 240-248: the hourly entries api_today serves
hourly_stats(hourly) ==
    {[hour |-> h.hour, secs |-> h.active_secs + h.passive_secs,
      active_secs |-> h.active_secs, passive_secs |-> h.passive_secs] : h \in hourly}

\* Duration::days(7)
WeekDays == 7

\* Local::now().date_naive(), as a day number
LocalDate(t) == (t + tz * UnitsPerSec) \div UnitsPerDay

\* date.and_hms_opt(0, 0, 0).and_local_timezone(Local), as text, for a day number
DateStart(d) == [wall |-> d * UnitsPerDay, off |-> tz]

\* WHERE started_at >= ?1 AND started_at < ?2, ?2 being start + Duration::days(1)
InDate(r, d) ==
    /\ ~TextLess(to_rfc3339(r.started_at, r.started_off), DateStart(d))
    /\ TextLess(to_rfc3339(r.started_at, r.started_off), DateStart(d + 1))

\* one row of the result: GROUP BY app_name, category with the three sums
AppSummary(rs, d, app_name, category) ==
    LET group == {r \in rs : InDate(r, d) /\ r.app_name = app_name /\ r.category = category}
    IN  [app_name |-> app_name, category |-> category,
         total_secs |-> SumColumn(group, "duration_secs"),
         active_secs |-> SumColumn(group, "active_secs"),
         passive_secs |-> SumColumn(group, "passive_secs")]

\* the vectors that hold each summary once
Vectors(summaries) ==
    {v \in [1..Cardinality(summaries) -> summaries] :
        \A i, j \in DOMAIN v : i /= j => v[i] /= v[j]}

\* the result set before it is ordered: one summary per group of the day's rows
Summaries(rs, d) ==
    {AppSummary(rs, d, r.app_name, r.category) : r \in {x \in rs : InDate(x, d)}}

get_date_summary_ascending(rs, d) ==
    {v \in Vectors(Summaries(rs, d)) :
        \A i, j \in DOMAIN v : i < j => v[i].total_secs <= v[j].total_secs}

\* get_date_summary(date): the vectors the query may return, ORDER BY total
\* DESC; groups with equal totals come in either order
get_date_summary(rs, d) ==
    {v \in Vectors(Summaries(rs, d)) :
        \A i, j \in DOMAIN v : i < j => v[i].total_secs >= v[j].total_secs}

\* get_today_summary()
get_today_summary(rs, t) == get_date_summary(rs, LocalDate(t))

\* get_today_total_secs(): COALESCE(SUM(duration_secs), 0) over today's rows
get_today_total_secs(rs, t) == SumColumn({r \in rs : InToday(r, t)}, "duration_secs")

\* date(started_at): SQLite reads the text with its offset and gives the date
\* of the instant in UTC, as a day number
date(r) == r.started_at \div UnitsPerDay

\* week_ago.and_hms_opt(0, 0, 0).and_local_timezone(Local), as text
WeekStart(t, days) == [wall |-> (LocalDate(t) - days) * UnitsPerDay, off |-> tz]

\* today.and_hms_opt(23, 59, 59).and_local_timezone(Local), as text
WeekEnd(t) == [wall |-> LocalDate(t) * UnitsPerDay + (SecsPerDay - 1) * UnitsPerSec, off |-> tz]

\* WHERE started_at >= ?1 AND started_at <= ?2
InWeek(r, t, days) ==
    /\ ~TextLess(to_rfc3339(r.started_at, r.started_off), WeekStart(t, days))
    /\ ~TextLess(WeekEnd(t), to_rfc3339(r.started_at, r.started_off))

\* get_week_summary with the window opening days before today: the HashMap as
\* the set of its entries
WeekSummary(rs, t, days) ==
    {[day |-> d, total |-> SumColumn({r \in rs : InWeek(r, t, days) /\ date(r) = d}, "duration_secs")] :
        d \in {date(r) : r \in {x \in rs : InWeek(x, t, days)}}}

get_week_summary(rs, t) == WeekSummary(rs, t, WeekDays)

\* GROUP BY app_name, window_title: the rows of today that share both
Group(rs, t, app_name, window_title) ==
    {r \in rs : InToday(r, t) /\ r.app_name = app_name /\ r.window_title = window_title}

HavingTotalAbove5(total) == total > 5

\* HAVING total >= 5
HavingTotal(total) == total >= 5

\* SELECT app_name, category, window_title, SUM(duration_secs) ... HAVING total >= 5:
\* the rows returned, as a set (category is a bare column: that of some row of the group)
get_today_detailed(rs, t) ==
    {[app_name |-> g.app_name, category |-> g.category, window_title |-> g.window_title,
      total |-> SumDuration(Group(rs, t, g.app_name, g.window_title))] :
        g \in {r \in rs : /\ InToday(r, t)
                           /\ HavingTotal(SumDuration(Group(rs, t, r.app_name, r.window_title)))}}

----------------------------------------------------------------------------
(* pomodoro.rs: PomodoroTimer.  Every method takes the write lock on state   *)
(* or runs to its end on the one value it read, so a call is one step.       *)
(* last_tick is written and never read; it holds whether an Instant was      *)
(* stored.                                                                   *)

\* work_mins * 60
SecsPerMin == 60

DEFAULT_WORK_MINS == 25
DEFAULT_SHORT_BREAK_MINS == 5
DEFAULT_LONG_BREAK_MINS == 15
POMODOROS_UNTIL_LONG_BREAK == 4

TimerState == {"Idle", "Working", "ShortBreak", "LongBreak", "Paused"}

\* PomodoroTimer::with_durations(work_mins, short_break_mins, long_break_mins)
with_durations(work_mins, short_break_mins, long_break_mins) ==
    [state |-> "Idle", state_before_pause |-> "Idle",
     remaining_secs |-> work_mins * SecsPerMin,
     completed_pomodoros |-> 0,
     last_tick |-> None,
     enabled |-> TRUE,
     work_duration |-> work_mins * SecsPerMin,
     short_break_duration |-> short_break_mins * SecsPerMin,
     long_break_duration |-> long_break_mins * SecsPerMin]

\* PomodoroTimer::new()
new == with_durations(DEFAULT_WORK_MINS, DEFAULT_SHORT_BREAK_MINS, DEFAULT_LONG_BREAK_MINS)

\* Some(Instant::now())
TickStamp == Some("instant")

start_work(p) ==
    [p EXCEPT !.state = "Working", !.remaining_secs = p.work_duration,
              !.last_tick = TickStamp]

\* if completed > 0 && completed % POMODOROS_UNTIL_LONG_BREAK == 0; the cast of
\* the count to u32 keeps every count below 2^32, and the counts here are below it
LongBreakDue(completed) == completed > 0 /\ completed % POMODOROS_UNTIL_LONG_BREAK = 0

start_break(p) ==
    IF LongBreakDue(p.completed_pomodoros)
        THEN [p EXCEPT !.state = "LongBreak", !.remaining_secs = p.long_break_duration,
                       !.last_tick = TickStamp]
        ELSE [p EXCEPT !.state = "ShortBreak", !.remaining_secs = p.short_break_duration,
                       !.last_tick = TickStamp]

pause(p) ==
    IF p.state /= "Idle" /\ p.state /= "Paused"
        THEN [p EXCEPT !.state_before_pause = p.state, !.state = "Paused"]
        ELSE p

resume_to_working(p) ==
    IF p.state = "Paused"
        THEN [p EXCEPT !.state = "Working", !.last_tick = TickStamp]
        ELSE p

resume(p) ==
    IF p.state = "Paused"
        THEN [p EXCEPT !.state = p.state_before_pause, !.last_tick = TickStamp]
        ELSE p

reset(p) ==
    [p EXCEPT !.state = "Idle", !.remaining_secs = p.work_duration,
              !.completed_pomodoros = 0, !.last_tick = None]

skip_counting(p) ==
    CASE p.state = "Working" -> start_break([p EXCEPT !.completed_pomodoros = @ + 1])
      [] p.state \in {"ShortBreak", "LongBreak"} -> start_work(p)
      [] OTHER -> p

skip(p) ==
    CASE p.state = "Working" -> start_break(p)
      [] p.state \in {"ShortBreak", "LongBreak"} -> start_work(p)
      [] OTHER -> p

\* tick(): the timer it leaves and the bool it returns
tick(p) ==
    IF p.state = "Idle" \/ p.state = "Paused"
        THEN [timer |-> p, completed |-> FALSE]
    ELSE IF p.remaining_secs > 0
        THEN [timer |-> [p EXCEPT !.remaining_secs = @ - 1], completed |-> FALSE]
    ELSE [timer |-> CASE p.state = "Working" ->
                            start_break([p EXCEPT !.completed_pomodoros = @ + 1])
                      [] p.state \in {"ShortBreak", "LongBreak"} -> start_work(p),
          completed |-> TRUE]

\* the tasks that call the timer: the task start_web_server spawns, which calls
\* tick() every second, and the tasks axum runs the request handlers on
Handlers == {"h1", "h2"}

Tasks == {"ticker"} \cup Handlers

\* a task that is in no method of the timer.  op: the method called; fn: the
\* method whose body is running (skip and tick end in start_work or
\* start_break); at: the await or atomic operation the task is about to
\* perform; seen: the TimerState it copied out of the state lock; completed:
\* the count start_break loaded
NoCall == [op |-> "none", fn |-> "none", at |-> "out", seen |-> None, completed |-> 0]

NoCalls == [k \in Tasks |-> NoCall]

\* the three RwLocks, none held
Unlocked == [state |-> None, state_before_pause |-> None, last_tick |-> None]

----------------------------------------------------------------------------
(* tracker.rs: the probes *)

Snapshot(window_class, window_title) ==
    [window_class |-> window_class, window_title |-> window_title]

\* what get_active_window may return: Some(snapshot), or None for an Err
WindowProbes ==
    {None} \cup {Some(Snapshot(<<c>>, <<t>>)) : c \in {"A", "x"}, t \in {"a", "B"}}

\* what xprintidle may print, in milliseconds, around the timeout
IdleReadings(timeout) == {Some(timeout * 1000 + 999), Some((timeout + 1) * 1000)}

\* what the idle probe may yield: a reading, or None when xprintidle fails or is missing
IdleProbes(timeout) == {None} \cup IdleReadings(timeout)

\* xprintidle fails, or prints a reading above the timeout
IdleProbesFailing(timeout) == {None, Some((timeout + 1) * 1000)}

\* get_idle_time_secs().unwrap_or(0): ms / 1000, and 0 on every failure
get_idle_time_secs(xp) == IF xp = None THEN 0 ELSE Unwrap(xp) \div 1000

----------------------------------------------------------------------------
(* main.rs: start_daemon *)

DefaultApps ==
    << TrackedApp("Brave", "WindowClass", <<"a">>, "Browser"),
       TrackedApp("Teams", "WindowTitle", <<"B">>, "Communication"),
       TrackedApp("Ghostty", "Process", <<"b">>, "Terminal") >>

Configs == { [idle_timeout_secs |-> 300, apps |-> DefaultApps] }

\* stores a previous run may have left behind: empty, a closed row and an
\* orphaned open row, two orphaned open rows
InitialStores ==
    { {},
      {ActivityRecord(1, "Brave", "Browser", <<"a">>, 0, Some(1), 0),
       ActivityRecord(2, "Teams", "Communication", <<"B">>, 1, None, 0)},
      {ActivityRecord(1, "Brave", "Browser", <<"a">>, 0, None, 0),
       ActivityRecord(2, "Teams", "Communication", <<"B">>, 1, None, 0)} }

\* what the loop holds when an event arrives
Before ==
    [rows |-> rows, current_session |-> current_session,
     is_idle |-> is_idle, idle_secs |-> idle_secs]

\* op, branch: the select! branch taken and the path through it; tracking: the
\* is_tracking flag as the tick loaded it; idle: the idle seconds the tick
\* obtained, if it asked; probed: whether the tick called get_active_window;
\* window: what that returned; before: the loop's state when the event arrived
Event(op, branch, tracking, idle, probed, window) ==
    [op |-> op, branch |-> branch, tracking |-> tracking, idle |-> idle,
     probed |-> probed, window |-> window, before |-> Before]

Init ==
    /\ pc = "init"
    /\ config \in Configs
    /\ tz = 0
    /\ fpLow = {}
    /\ dbLock = NoLocks
    /\ columns = CurrentColumns
    /\ sleep = PollInterval
    /\ calls = NoCalls
    /\ locks = Unlocked
    /\ timer = new
    /\ rows \in InitialStores
    /\ current_session = None
    /\ is_tracking = TRUE
    /\ is_idle = FALSE
    /\ idle_secs = 0
    /\ queue = <<>>
    /\ trayPc = "menu"
    /\ now = 1
    /\ last = Event("none", "none", TRUE, None, FALSE, None)

\* what Local::now() may return when a handler reads it: the clock does not
\* run backward
ClockReads == now..MaxTime

\* storage.close_open_sessions()? before the loop (main.rs 134-135)
Startup(t, ok) ==
    /\ pc = "init"
    /\ OpenRows(rows) /= {} \/ t = now
    /\ pc' = IF ok THEN "running" ELSE "failed"
    /\ rows' = IF ok THEN close_open_sessions(rows, t) ELSE rows
    /\ last' = Event("startup", IF ok THEN "swept" ELSE "error", TRUE, None, FALSE, None)
    /\ now' = t
    /\ sleep' = PollInterval
    /\ UNCHANGED <<config, tz, fpLow, dbLock, columns, timer, current_session, is_tracking, is_idle, idle_secs,
                   queue, trayPc, calls, locks>>

\* if let Some(id) = session { storage.end_activity(id)?; }
EndSession(rs, session, t, ok) ==
    IF IsSome(session)
        THEN [ok |-> ok, rows |-> IF ok THEN end_activity(rs, Unwrap(session), t) ELSE rs]
        ELSE [ok |-> TRUE, rows |-> rs]

----------------------------------------------------------------------------
(* tray.rs: the menu callbacks, run by the tray thread *)

\* the tray thread runs beside the loop, also while the loop's thread is
\* inside a probe ("probing")
TrayAlive == pc \in {"running", "probing"}

\* Pause entry, shown while is_tracking: store(false), then blocking_send
TrayPause ==
    /\ TrayAlive /\ trayPc = "menu" /\ is_tracking
    /\ is_tracking' = FALSE
    /\ trayPc' = "Pause"
    /\ UNCHANGED <<pc, config, tz, fpLow, dbLock, columns, timer, rows, current_session, is_idle, idle_secs, queue, now, last,
                   sleep, calls, locks>>

\* Resume entry, shown while not is_tracking: store(true), then blocking_send
TrayResume ==
    /\ TrayAlive /\ trayPc = "menu" /\ ~is_tracking
    /\ is_tracking' = TRUE
    /\ trayPc' = "Resume"
    /\ UNCHANGED <<pc, config, tz, fpLow, dbLock, columns, timer, rows, current_session, is_idle, idle_secs, queue, now, last,
                   sleep, calls, locks>>

\* Quit entry: blocking_send only, which waits while the channel is full
TrayQuit ==
    /\ TrayAlive /\ trayPc = "menu"
    /\ Len(queue) < MaxQueue
    /\ queue' = Append(queue, "Quit")
    /\ UNCHANGED <<pc, config, tz, fpLow, dbLock, columns, timer, rows, current_session, is_tracking, is_idle,
                   idle_secs, trayPc, now, last, sleep, calls, locks>>

\* the blocking_send that follows the store in Pause and Resume
TraySend ==
    /\ TrayAlive /\ trayPc /= "menu"
    /\ Len(queue) < MaxQueue
    /\ queue' = Append(queue, trayPc)
    /\ trayPc' = "menu"
    /\ UNCHANGED <<pc, config, tz, fpLow, dbLock, columns, timer, rows, current_session, is_tracking, is_idle,
                   idle_secs, now, last, sleep, calls, locks>>

----------------------------------------------------------------------------
(* main.rs: the select! loop.  Each iteration evaluates                    *)
(* tokio::time::sleep(poll_interval) anew (main.rs 210), so every event that *)
(* ends an iteration leaves a Sleep with the whole interval to run.          *)

HandlePauseKeep(t, eok) ==
    /\ pc = "running" /\ queue /= <<>> /\ Head(queue) = "Pause"
    /\ t = now
    /\ last' = Event("pause", "done", TRUE, None, FALSE, None)
    /\ queue' = Tail(queue)
    /\ sleep' = PollInterval
    /\ UNCHANGED <<pc, config, tz, fpLow, dbLock, columns, timer, rows, current_session, is_tracking, is_idle,
                   idle_secs, trayPc, now, calls, locks>>

\* TrayCommand::Pause (main.rs 186-193)
HandlePause(t, eok) ==
    /\ pc = "running" /\ queue /= <<>> /\ Head(queue) = "Pause"
    /\ IsSome(current_session) \/ t = now
    /\ LET e == EndSession(rows, current_session, t, eok)
       IN  /\ rows' = e.rows
           /\ pc' = IF e.ok THEN "running" ELSE "failed"
           /\ last' = Event("pause", IF e.ok THEN "done" ELSE "error", TRUE, None, FALSE, None)
    /\ current_session' = None
    /\ queue' = Tail(queue)
    /\ now' = t
    /\ sleep' = PollInterval
    /\ UNCHANGED <<config, tz, fpLow, dbLock, columns, timer, is_tracking, is_idle, idle_secs, trayPc,
                   calls, locks>>

\* TrayCommand::Resume (main.rs 194-196)
HandleResume ==
    /\ pc = "running" /\ queue /= <<>> /\ Head(queue) = "Resume"
    /\ queue' = Tail(queue)
    /\ last' = Event("resume", "done", TRUE, None, FALSE, None)
    /\ sleep' = PollInterval
    /\ UNCHANGED <<pc, config, tz, fpLow, dbLock, columns, timer, rows, current_session, is_tracking, is_idle,
                   idle_secs, trayPc, now, calls, locks>>

\* TrayCommand::Quit (main.rs 197-205)
HandleQuit(t, eok) ==
    /\ pc = "running" /\ queue /= <<>> /\ Head(queue) = "Quit"
    /\ IsSome(current_session) \/ t = now
    /\ LET e == EndSession(rows, current_session, t, eok)
       IN  /\ rows' = e.rows
           /\ pc' = IF e.ok THEN "stopped" ELSE "failed"
           /\ last' = Event("quit", IF e.ok THEN "done" ELSE "error", TRUE, None, FALSE, None)
    /\ queue' = Tail(queue)
    /\ now' = t
    /\ sleep' = PollInterval
    /\ UNCHANGED <<config, tz, fpLow, dbLock, columns, timer, current_session, is_tracking, is_idle, idle_secs, trayPc,
                   calls, locks>>

CtrlCNoEnd(t, eok) ==
    /\ pc = "running"
    /\ t = now
    /\ pc' = "stopped"
    /\ last' = Event("ctrl_c", "done", TRUE, None, FALSE, None)
    /\ sleep' = PollInterval
    /\ UNCHANGED <<config, tz, fpLow, dbLock, columns, timer, rows, current_session, is_tracking, is_idle, idle_secs,
                   queue, trayPc, now, calls, locks>>

\* tokio::signal::ctrl_c() (main.rs 285-294)
CtrlC(t, eok) ==
    /\ pc = "running"
    /\ IsSome(current_session) \/ t = now
    /\ LET e == EndSession(rows, current_session, t, eok)
       IN  /\ rows' = e.rows
           /\ pc' = IF e.ok THEN "stopped" ELSE "failed"
           /\ last' = Event("ctrl_c", IF e.ok THEN "done" ELSE "error", TRUE, None, FALSE, None)
    /\ now' = t
    /\ sleep' = PollInterval
    /\ UNCHANGED <<config, tz, fpLow, dbLock, columns, timer, current_session, is_tracking, is_idle, idle_secs,
                   queue, trayPc, calls, locks>>

\* what storage.get_active_session() may return: an Err, Ok(None), or Ok(Some(row))
ActiveResults(rs, rok) ==
    IF ~rok THEN {[ok |-> FALSE, val |-> None]}
    ELSE IF get_active_session(rs) = {} THEN {[ok |-> TRUE, val |-> None]}
    ELSE {[ok |-> TRUE, val |-> Some(r)] : r \in get_active_session(rs)}

IsIdleInclusive(idle, idle_timeout) == idle >= idle_timeout

\* if idle_secs > idle_timeout (main.rs 217)
IsIdle(idle, idle_timeout) == idle > idle_timeout

need_new_session_always(active, app) == TRUE

need_new_session_if_none(active, app) ==
    CASE ~active.ok -> TRUE
      [] OTHER -> active.val = None

\* let need_new_session = match storage.get_active_session() ... (main.rs 242-246)
need_new_session(active, app) ==
    CASE ~active.ok -> TRUE
      [] active.val = None -> TRUE
      [] OTHER -> Unwrap(active.val).app_name /= app.name

\* what one tick leaves behind
TickOut(p, rs, session, idleFlag, idleSecs, branch) ==
    [pc |-> p, rows |-> rs, current_session |-> session, is_idle |-> idleFlag,
     idle_secs |-> idleSecs, branch |-> branch]

\* the probes the tick has called on its way
TickProbes(out, asked, probed) ==
    [pc |-> out.pc, rows |-> out.rows, current_session |-> out.current_session,
     is_idle |-> out.is_idle, idle_secs |-> out.idle_secs, branch |-> out.branch,
     asked |-> asked, probed |-> probed]

\* the idle branch (main.rs 217-227)
TickIdle(t, idle, eok) ==
    LET e == EndSession(rows, current_session, t, eok)
    IN  TickOut(IF e.ok THEN "running" ELSE "failed", e.rows, None, TRUE, idle,
                IF e.ok THEN "idle" ELSE "error")

TickMatchedNoClose(t, app, w, active, eok, sok) ==
    IF need_new_session(active, app)
        THEN IF ~sok THEN TickOut("failed", rows, None, FALSE, 0, "error")
             ELSE TickOut("running",
                          start_activity(rows, app.name, app.category, w.window_title, t),
                          Some(NextRowId(rows)), FALSE, 0, "new_session")
        ELSE TickOut("running", rows, current_session, FALSE, 0, "same_app")

\* a rule matched (main.rs 238-263)
TickMatched(t, app, w, active, eok, sok) ==
    IF need_new_session(active, app)
        THEN LET e == EndSession(rows, current_session, t, eok)
             IN  IF ~e.ok THEN TickOut("failed", e.rows, None, FALSE, 0, "error")
                 ELSE IF ~sok THEN TickOut("failed", e.rows, None, FALSE, 0, "error")
                 ELSE TickOut("running",
                              start_activity(e.rows, app.name, app.category, w.window_title, t),
                              Some(NextRowId(e.rows)), FALSE, 0, "new_session")
        ELSE TickOut("running", rows, current_session, FALSE, 0, "same_app")

TickUnmatchedKeep(t, eok) ==
    TickOut("running", rows, current_session, FALSE, 0, "unmatched")

\* no rule matched (main.rs 264-270)
TickUnmatched(t, eok) ==
    LET e == EndSession(rows, current_session, t, eok)
    IN  TickOut(IF e.ok THEN "running" ELSE "failed", e.rows, None, FALSE, 0,
                IF e.ok THEN "unmatched" ELSE "error")

TickResultNoPauseCheck(t, xp, win, active, eok, sok) ==
    IF IsIdle(get_idle_time_secs(xp), config.idle_timeout_secs)
        THEN TickProbes(TickIdle(t, get_idle_time_secs(xp), eok), TRUE, FALSE)
    ELSE IF win = None
        THEN TickProbes(TickOut("running", rows, current_session, FALSE, 0, "no_window"),
                        TRUE, TRUE)
    ELSE IF IsSome(match_window(config, Unwrap(win).window_class, Unwrap(win).window_title))
        THEN TickProbes(TickMatched(t, Unwrap(match_window(config, Unwrap(win).window_class,
                                                           Unwrap(win).window_title)),
                                    Unwrap(win), active, eok, sok),
                        TRUE, TRUE)
    ELSE TickProbes(TickUnmatched(t, eok), TRUE, TRUE)

TickResultNoWindowCloses(t, xp, win, active, eok, sok) ==
    IF ~is_tracking
        THEN TickProbes(TickOut("running", rows, current_session, is_idle, idle_secs, "paused"),
                        FALSE, FALSE)
    ELSE IF IsIdle(get_idle_time_secs(xp), config.idle_timeout_secs)
        THEN TickProbes(TickIdle(t, get_idle_time_secs(xp), eok), TRUE, FALSE)
    ELSE IF win = None
        THEN TickProbes(TickUnmatched(t, eok), TRUE, TRUE)
    ELSE IF IsSome(match_window(config, Unwrap(win).window_class, Unwrap(win).window_title))
        THEN TickProbes(TickMatched(t, Unwrap(match_window(config, Unwrap(win).window_class,
                                                           Unwrap(win).window_title)),
                                    Unwrap(win), active, eok, sok),
                        TRUE, TRUE)
    ELSE TickProbes(TickUnmatched(t, eok), TRUE, TRUE)

\* the tick once it has found is_tracking set (main.rs 215-275)
TickTracking(t, xp, win, active, eok, sok) ==
    IF IsIdle(get_idle_time_secs(xp), config.idle_timeout_secs)
        THEN TickProbes(TickIdle(t, get_idle_time_secs(xp), eok), TRUE, FALSE)
    ELSE IF win = None
        THEN TickProbes(TickOut("running", rows, current_session, FALSE, 0, "no_window"),
                        TRUE, TRUE)
    ELSE IF IsSome(match_window(config, Unwrap(win).window_class, Unwrap(win).window_title))
        THEN TickProbes(TickMatched(t, Unwrap(match_window(config, Unwrap(win).window_class,
                                                           Unwrap(win).window_title)),
                                    Unwrap(win), active, eok, sok),
                        TRUE, TRUE)
    ELSE TickProbes(TickUnmatched(t, eok), TRUE, TRUE)

\* the tick branch of select! (main.rs 210-283)
TickResult(t, xp, win, active, eok, sok) ==
    IF ~is_tracking
        THEN TickProbes(TickOut("running", rows, current_session, is_idle, idle_secs, "paused"),
                        FALSE, FALSE)
    ELSE TickTracking(t, xp, win, active, eok, sok)

\* the tick calls Local::now() only inside end_activity and start_activity
TickReadsClock(branch) ==
    \/ branch \in {"new_session", "error"}
    \/ branch \in {"idle", "unmatched"} /\ IsSome(current_session)

Tick(t, xp, win, rok, eok, sok) ==
    /\ pc = "running"
    /\ \E active \in ActiveResults(rows, rok) :
       \E out \in {TickResult(t, xp, win, active, eok, sok)} :
             \* a probe that is not called returns nothing, a clock that is not read stays
             /\ out.asked \/ xp = None
             /\ out.probed \/ win = None
             /\ TickReadsClock(out.branch) \/ t = now
             /\ Cardinality(out.rows) <= MaxRows
             /\ pc' = out.pc
             /\ rows' = out.rows
             /\ current_session' = out.current_session
             /\ is_idle' = out.is_idle
             /\ idle_secs' = out.idle_secs
             /\ now' = t
             /\ last' = Event("tick", out.branch, is_tracking,
                               IF out.asked THEN Some(get_idle_time_secs(xp)) ELSE None,
                               out.probed, IF out.probed THEN win ELSE None)
    /\ sleep' = PollInterval
    /\ UNCHANGED <<config, tz, fpLow, dbLock, columns, timer, is_tracking, queue, trayPc, calls, locks>>

----------------------------------------------------------------------------
(* Specifications *)

\* the store and xprintidle work: every store call returns Ok, the idle probe
\* yields a reading
Next ==
    \/ \E t \in ClockReads : Startup(t, TRUE)
    \/ TrayPause
    \/ TrayResume
    \/ TrayQuit
    \/ TraySend
    \/ \E t \in ClockReads : HandlePause(t, TRUE)
    \/ HandleResume
    \/ \E t \in ClockReads : HandleQuit(t, TRUE)
    \/ \E t \in ClockReads : CtrlC(t, TRUE)
    \/ \E t \in ClockReads,
          xp \in (IF is_tracking THEN IdleReadings(config.idle_timeout_secs) ELSE {None}),
          win \in WindowProbes :
            Tick(t, xp, win, TRUE, TRUE, TRUE)

Spec == Init /\ [][Next]_vars

\* the store works and xprintidle may fail: the idle probe yields nothing, or
\* a reading above the timeout
NextProbe ==
    \/ \E t \in ClockReads : Startup(t, TRUE)
    \/ TrayPause
    \/ TrayResume
    \/ TrayQuit
    \/ TraySend
    \/ \E t \in ClockReads : HandlePause(t, TRUE)
    \/ HandleResume
    \/ \E t \in ClockReads : HandleQuit(t, TRUE)
    \/ \E t \in ClockReads : CtrlC(t, TRUE)
    \/ \E t \in ClockReads,
          xp \in (IF is_tracking THEN IdleProbesFailing(config.idle_timeout_secs) ELSE {None}),
          win \in WindowProbes :
            Tick(t, xp, win, TRUE, TRUE, TRUE)

SpecProbe == Init /\ [][NextProbe]_vars

\* the store or xprintidle may fail: any store call may return Err (FALSE), the
\* idle probe may yield nothing
NextFault ==
    \/ \E t \in ClockReads, ok \in BOOLEAN : Startup(t, ok)
    \/ TrayPause
    \/ TrayResume
    \/ TrayQuit
    \/ TraySend
    \/ \E t \in ClockReads, eok \in BOOLEAN : HandlePause(t, eok)
    \/ HandleResume
    \/ \E t \in ClockReads, eok \in BOOLEAN : HandleQuit(t, eok)
    \/ \E t \in ClockReads, eok \in BOOLEAN : CtrlC(t, eok)
    \/ \E t \in ClockReads,
          xp \in (IF is_tracking THEN IdleProbes(config.idle_timeout_secs) ELSE {None}),
          win \in WindowProbes, rok \in BOOLEAN, eok \in BOOLEAN, sok \in BOOLEAN :
            Tick(t, xp, win, rok, eok, sok)

SpecFault == Init /\ [][NextFault]_vars

\* `flowmode reset` (main.rs 384-392): another process opens the store and
\* calls reset_today while the daemon is running
CliReset(t) ==
    /\ pc = "running"
    /\ rows /= {}
    /\ rows' = reset_today(rows, t)
    /\ now' = t
    /\ last' = Event("reset", "deleted", is_tracking, None, FALSE, None)
    /\ UNCHANGED <<pc, config, tz, fpLow, dbLock, columns, timer, current_session, is_tracking,
                   is_idle, idle_secs, queue, trayPc, sleep, calls, locks>>

\* the daemon, and the reset command run at any moment
NextCli ==
    \/ \E t \in ClockReads : Startup(t, TRUE)
    \/ TrayPause
    \/ TrayResume
    \/ TrayQuit
    \/ TraySend
    \/ \E t \in ClockReads : HandlePause(t, TRUE)
    \/ HandleResume
    \/ \E t \in ClockReads : HandleQuit(t, TRUE)
    \/ \E t \in ClockReads : CtrlC(t, TRUE)
    \/ \E t \in ClockReads,
          xp \in (IF is_tracking THEN IdleReadings(config.idle_timeout_secs) ELSE {None}),
          win \in WindowProbes :
            Tick(t, xp, win, TRUE, TRUE, TRUE)
    \/ CliReset(now)

SpecCli == Init /\ [][NextCli]_vars

----------------------------------------------------------------------------
(* The tick in two steps.  tracker::get_idle_time_secs and                 *)
(* tracker::get_active_window run xprintidle, xdotool and xprop with       *)
(* Command::output(), which blocks the calling thread until the child      *)
(* process ends; the tick branch calls them on the loop's own task         *)
(* (main.rs 216, 235).  Between TickProbe and TickReturn the loop is       *)
(* inside such a call ("probing") while the tray thread runs on.           *)

TickProbeAlways ==
    /\ pc = "running"
    /\ pc' = "probing"
    /\ UNCHANGED <<config, tz, fpLow, dbLock, columns, timer, rows, current_session,
                   is_tracking, is_idle, idle_secs, queue, trayPc, now, last,
                   sleep, calls, locks>>

\* the sleep has elapsed, is_tracking was loaded as true, and the tick calls
\* the first probe (main.rs 210-216)
TickProbe ==
    /\ pc = "running"
    /\ is_tracking
    /\ pc' = "probing"
    /\ UNCHANGED <<config, tz, fpLow, dbLock, columns, timer, rows, current_session,
                   is_tracking, is_idle, idle_secs, queue, trayPc, now, last,
                   sleep, calls, locks>>

\* the probes return and the tick runs to its end (main.rs 216-283); cleared:
\* whether the tray had cleared is_tracking by then
TickReturn(t, xp, win) ==
    /\ pc = "probing"
    /\ \E active \in ActiveResults(rows, TRUE) :
       \E out \in {TickTracking(t, xp, win, active, TRUE, TRUE)} :
             /\ out.probed \/ win = None
             /\ TickReadsClock(out.branch) \/ t = now
             /\ Cardinality(out.rows) <= MaxRows
             /\ pc' = out.pc
             /\ rows' = out.rows
             /\ current_session' = out.current_session
             /\ is_idle' = out.is_idle
             /\ idle_secs' = out.idle_secs
             /\ now' = t
             /\ last' = [op |-> "tick", branch |-> out.branch, tracking |-> TRUE,
                         idle |-> Some(get_idle_time_secs(xp)), probed |-> out.probed,
                         window |-> IF out.probed THEN win ELSE None, before |-> Before,
                         cleared |-> ~is_tracking]
    /\ sleep' = PollInterval
    /\ UNCHANGED <<config, tz, fpLow, dbLock, columns, timer, is_tracking, queue, trayPc, calls, locks>>

\* the sleep has elapsed and is_tracking was loaded as false: continue
\* (main.rs 211-213)
TickPaused ==
    /\ ~is_tracking
    /\ Tick(now, None, None, TRUE, TRUE, TRUE)

\* the command branch of select! (main.rs 177-207)
HandleCommand ==
    \/ HandlePause(now, TRUE)
    \/ HandleResume
    \/ HandleQuit(now, TRUE)

\* the daemon on a fresh store, with the clock standing still
InitFlight ==
    /\ Init
    /\ rows = {}

NextFlight ==
    \/ Startup(now, TRUE)
    \/ TrayPause
    \/ TrayResume
    \/ TrayQuit
    \/ TraySend
    \/ HandlePause(now, TRUE)
    \/ HandleResume
    \/ HandleQuit(now, TRUE)
    \/ CtrlC(now, TRUE)
    \/ TickPaused
    \/ TickProbe
    \/ \E xp \in IdleReadings(config.idle_timeout_secs), win \in WindowProbes :
            TickReturn(now, xp, win)

SpecFlight == InitFlight /\ [][NextFlight]_vars

----------------------------------------------------------------------------
(* The loop with the poll interval counted: time passes in units while the *)
(* loop waits in select!, and the tick branch is ready when the Sleep of   *)
(* this iteration has run out.  The command branch and the ctrl_c branch   *)
(* are ready whenever there is something for them.                         *)

\* one unit of time passes while the loop waits
Elapse ==
    /\ pc = "running"
    /\ sleep > 0
    /\ sleep' = sleep - 1
    /\ UNCHANGED <<pc, config, tz, fpLow, dbLock, columns, timer, rows, current_session,
                   is_tracking, is_idle, idle_secs, queue, trayPc, now, calls, locks, last>>

\* the Sleep has run out and select! takes the tick branch (main.rs 210)
SleepTick ==
    /\ sleep = 0
    /\ \E xp \in (IF is_tracking THEN IdleReadings(config.idle_timeout_secs) ELSE {None}),
          win \in WindowProbes :
            Tick(now, xp, win, TRUE, TRUE, TRUE)

InitSleep ==
    /\ Init
    /\ rows = {}

NextSleep ==
    \/ Startup(now, TRUE)
    \/ TrayPause
    \/ TrayResume
    \/ TrayQuit
    \/ TraySend
    \/ HandlePause(now, TRUE)
    \/ HandleResume
    \/ HandleQuit(now, TRUE)
    \/ CtrlC(now, TRUE)
    \/ Elapse
    \/ SleepTick

\* time passes, and select! takes a branch that is ready
SpecSleep ==
    /\ InitSleep
    /\ [][NextSleep]_vars
    /\ WF_vars(Startup(now, TRUE))
    /\ WF_vars(Elapse)
    /\ WF_vars(SleepTick)
    /\ WF_vars(HandleCommand)

----------------------------------------------------------------------------
(* match_window on its own: every rule list up to MaxRules, every snapshot *)

MatchPatterns == {<<>>, <<"a">>, <<"B">>, <<"a", "B">>}

MatchFields == {<<"A">>, <<"b">>, <<"x", "a">>, <<"A", "b">>}

\* the rule at position i carries the name RuleNames[i]
RuleNames == <<"R1", "R2", "R3", "R4">>

RuleLists ==
    UNION {
        {[i \in 1..n |-> TrackedApp(RuleNames[i], ty[i], pat[i], "Category")] :
            ty \in [1..n -> MatchTypes], pat \in [1..n -> MatchPatterns]} :
        n \in 0..MaxRules}

InitMatch ==
    /\ pc = "match"
    /\ config \in {[idle_timeout_secs |-> 300, apps |-> l] : l \in RuleLists}
    /\ tz = 0
    /\ fpLow = {}
    /\ dbLock = NoLocks
    /\ columns = CurrentColumns
    /\ sleep = PollInterval
    /\ calls = NoCalls
    /\ locks = Unlocked
    /\ timer = new
    /\ rows = {}
    /\ current_session = None
    /\ is_tracking = TRUE
    /\ is_idle = FALSE
    /\ idle_secs = 0
    /\ queue = <<>>
    /\ trayPc = "menu"
    /\ now = 1
    /\ last = [op |-> "none", window |-> None, result |-> None]

\* config.match_window(&window.window_class, &window.window_title)
MatchWindow(w) ==
    /\ pc = "match"
    /\ last' = [op |-> "match_window", window |-> Some(w),
                result |-> match_window(config, w.window_class, w.window_title)]
    /\ UNCHANGED <<pc, config, tz, fpLow, dbLock, columns, timer, rows, current_session, is_tracking, is_idle,
                   idle_secs, queue, trayPc, now, sleep, calls, locks>>

NextMatch ==
    \E c \in MatchFields, t \in MatchFields : MatchWindow(Snapshot(c, t))

SpecMatch == InitMatch /\ [][NextMatch]_vars

----------------------------------------------------------------------------
(* storage.rs called on its own: Storage's methods under any clock reading *)
(* and any UTC offset                                                      *)

\* clock readings for the duration arithmetic: a difference below one second,
\* a difference between one and two seconds, a difference of two whole seconds
DurationTimes == {0, UnitsPerSec + 1, 2 * UnitsPerSec}

\* clock readings around midnight UTC: one second before it, one and four
\* seconds after it
DayTimes == {-UnitsPerSec, UnitsPerSec, 4 * UnitsPerSec}

\* clock readings for the detailed query: one second before midnight UTC, one,
\* three and six seconds after it
DetailTimes == {-UnitsPerSec, UnitsPerSec, 3 * UnitsPerSec, 6 * UnitsPerSec}

\* UTC offsets Local may apply, in seconds
Offsets == {0, -3600}

Titles == {<<"a">>, <<"B">>}

\* the call made on the store and what it returned
StoreEvent(op, result) == [op |-> op, before |-> rows, result |-> result]

\* storage.start_activity(app_name, category, window_title)
StoreStart(title, t) ==
    /\ pc = "store"
    /\ NextRowId(rows) <= MaxRows
    /\ rows' = start_activity(rows, "Brave", "Browser", title, t)
    /\ now' = t
    /\ last' = StoreEvent("start_activity", Some(NextRowId(rows)))
    /\ UNCHANGED <<pc, config, tz, fpLow, dbLock, columns, timer, current_session, is_tracking, is_idle,
                   idle_secs, queue, trayPc, sleep, calls, locks>>

\* storage.end_activity(id), for the id of an open session
StoreEnd(id, t) ==
    /\ pc = "store"
    /\ id \in {r.id : r \in OpenRows(rows)}
    /\ rows' = end_activity(rows, id, t)
    /\ now' = t
    /\ last' = StoreEvent("end_activity", Some(id))
    /\ UNCHANGED <<pc, config, tz, fpLow, dbLock, columns, timer, current_session, is_tracking, is_idle,
                   idle_secs, queue, trayPc, sleep, calls, locks>>

\* storage.close_open_sessions()
StoreSweep(t) ==
    /\ pc = "store"
    /\ rows' = close_open_sessions(rows, t)
    /\ now' = t
    /\ last' = StoreEvent("close_open_sessions", None)
    /\ UNCHANGED <<pc, config, tz, fpLow, dbLock, columns, timer, current_session, is_tracking, is_idle,
                   idle_secs, queue, trayPc, sleep, calls, locks>>

\* storage.reset_today()
StoreReset(t) ==
    /\ pc = "store"
    /\ rows' = reset_today(rows, t)
    /\ now' = t
    /\ last' = StoreEvent("reset_today", None)
    /\ UNCHANGED <<pc, config, tz, fpLow, dbLock, columns, timer, current_session, is_tracking, is_idle,
                   idle_secs, queue, trayPc, sleep, calls, locks>>

\* storage.get_today_detailed()
StoreDetailed(t) ==
    /\ pc = "store"
    /\ now' = t
    /\ last' = StoreEvent("get_today_detailed", get_today_detailed(rows, t))
    /\ UNCHANGED <<pc, config, tz, fpLow, dbLock, columns, timer, rows, current_session, is_tracking, is_idle,
                   idle_secs, queue, trayPc, sleep, calls, locks>>

\* the machine moves to another time zone: Local applies another offset
TzChange(off) ==
    /\ pc = "store"
    /\ off /= tz
    /\ tz' = off
    /\ UNCHANGED <<pc, config, fpLow, dbLock, columns, timer, rows, current_session, is_tracking, is_idle,
                   idle_secs, queue, trayPc, now, last, sleep, calls, locks>>

\* an empty store; low: the differences that come out low
InitStore(t, low) ==
    /\ pc = "store"
    /\ config \in Configs
    /\ tz = 0
    /\ fpLow = low
    /\ dbLock = NoLocks
    /\ columns = CurrentColumns
    /\ sleep = PollInterval
    /\ calls = NoCalls
    /\ locks = Unlocked
    /\ timer = new
    /\ rows = {}
    /\ current_session = None
    /\ is_tracking = TRUE
    /\ is_idle = FALSE
    /\ idle_secs = 0
    /\ queue = <<>>
    /\ trayPc = "menu"
    /\ now = t
    /\ last = StoreEvent("none", None)

\* the pairs of clock readings a whole number of seconds apart
WholePairs(times) ==
    {p \in times \X times : p[1] /= p[2] /\ (p[2] - p[1]) % UnitsPerSec = 0}

\* sessions opened, closed and swept under a clock that may be set back
InitDuration == \E low \in SUBSET WholePairs(DurationTimes) : InitStore(0, low)

NextDuration ==
    \/ \E t \in DurationTimes : StoreStart(<<"a">>, t)
    \/ \E id \in 1..MaxRows, t \in DurationTimes : StoreEnd(id, t)
    \/ \E t \in DurationTimes : StoreSweep(t)

SpecDuration == InitDuration /\ [][NextDuration]_vars

\* sessions recorded under changing offsets, then reset_today
InitReset == InitStore(UnitsPerSec, {})

NextReset ==
    \/ \E t \in DayTimes : StoreStart(<<"a">>, t)
    \/ \E t \in DayTimes : StoreSweep(t)
    \/ \E off \in Offsets : TzChange(off)
    \/ \E t \in DayTimes : StoreReset(t)

SpecReset == InitReset /\ [][NextReset]_vars

\* sessions under two titles, then get_today_detailed
InitDetailed == InitStore(UnitsPerSec, {})

NextDetailed ==
    \/ \E title \in Titles, t \in DetailTimes : StoreStart(title, t)
    \/ \E id \in 1..MaxRows, t \in DetailTimes : StoreEnd(id, t)
    \/ \E t \in DetailTimes : StoreDetailed(t)

SpecDetailed == InitDetailed /\ [][NextDetailed]_vars

\* clock readings for the counters: two seconds apart within one hour, and one
\* in the next hour
CounterTimes == {0, 2 * UnitsPerSec, SecsPerHour * UnitsPerSec}

\* the deltas a caller may pass
Deltas == 0..MaxDelta

\* storage.update_activity_time(id, active_delta, passive_delta); the counters
\* of the table stay within MaxSecs in all
StoreUpdate(id, active_delta, passive_delta) ==
    /\ pc = "store"
    /\ SumColumn(rows, "active_secs") + SumColumn(rows, "passive_secs")
            + active_delta + passive_delta <= MaxSecs
    /\ rows' = update_activity_time(rows, id, active_delta, passive_delta)
    /\ last' = StoreEvent("update_activity_time",
                          [id |-> id, active_delta |-> active_delta, passive_delta |-> passive_delta])
    /\ UNCHANGED <<pc, config, tz, fpLow, dbLock, columns, timer, current_session, is_tracking,
                   is_idle, idle_secs, queue, trayPc, now, sleep, calls, locks>>

\* sessions opened and closed, their counters updated while open or closed
InitCounters == InitStore(0, {})

NextCounters ==
    \/ \E t \in CounterTimes : StoreStart(<<"a">>, t)
    \/ \E id \in 1..MaxRows, t \in CounterTimes : StoreEnd(id, t)
    \/ \E id \in 1..MaxRows, a \in Deltas, p \in Deltas : StoreUpdate(id, a, p)

SpecCounters == InitCounters /\ [][NextCounters]_vars

\* the same calls under one clock reading for the starts and one for the ends
InitAdditive == InitStore(0, {})

NextAdditive ==
    \/ StoreStart(<<"a">>, 0)
    \/ \E id \in 1..MaxRows : StoreEnd(id, 2 * UnitsPerSec)
    \/ \E id \in 1..MaxRows, a \in Deltas, p \in Deltas : StoreUpdate(id, a, p)

SpecAdditive == InitAdditive /\ [][NextAdditive]_vars

\* clock readings over nine days: one second into day 0, day 1, day 2, day 7
\* and day 8, and the last half second of day 8
WeekTimes ==
    {d * UnitsPerDay + UnitsPerSec : d \in {0, 1, 2, 7, 8}} \cup {9 * UnitsPerDay - 1}

\* storage.get_week_summary()
StoreWeek(t) ==
    /\ pc = "store"
    /\ now' = t
    /\ last' = StoreEvent("get_week_summary", get_week_summary(rows, t))
    /\ UNCHANGED <<pc, config, tz, fpLow, dbLock, columns, timer, rows, current_session,
                   is_tracking, is_idle, idle_secs, queue, trayPc, sleep, calls, locks>>

\* sessions recorded over nine days, then get_week_summary
InitWeek == InitStore(UnitsPerSec, {})

NextWeek ==
    \/ \E t \in WeekTimes : StoreStart(<<"a">>, t)
    \/ \E id \in 1..MaxRows, t \in WeekTimes : StoreEnd(id, t)
    \/ \E t \in WeekTimes : StoreWeek(t)

SpecWeek == InitWeek /\ [][NextWeek]_vars

\* the rules a session may be recorded under: two apps, and one app under two
\* categories
SummaryApps == {<<"Brave", "Browser">>, <<"Brave", "Work">>, <<"Teams", "Communication">>}

\* clock readings: one second before midnight UTC, one and four seconds after
SummaryTimes == {-UnitsPerSec, UnitsPerSec, 4 * UnitsPerSec}

\* storage.start_activity(app_name, category, window_title)
StoreStartApp(app, t) ==
    /\ pc = "store"
    /\ NextRowId(rows) <= MaxRows
    /\ rows' = start_activity(rows, app[1], app[2], <<"a">>, t)
    /\ now' = t
    /\ last' = StoreEvent("start_activity", Some(NextRowId(rows)))
    /\ UNCHANGED <<pc, config, tz, fpLow, dbLock, columns, timer, current_session, is_tracking,
                   is_idle, idle_secs, queue, trayPc, sleep, calls, locks>>

\* storage.get_today_summary(), as tui.rs and web.rs call it
StoreSummary(t) ==
    /\ pc = "store"
    /\ now' = t
    /\ \E v \in get_today_summary(rows, t) : last' = StoreEvent("get_date_summary", v)
    /\ UNCHANGED <<pc, config, tz, fpLow, dbLock, columns, timer, rows, current_session,
                   is_tracking, is_idle, idle_secs, queue, trayPc, sleep, calls, locks>>

\* sessions of several apps, then the summary of the day
InitSummary == InitStore(UnitsPerSec, {})

NextSummary ==
    \/ \E app \in SummaryApps, t \in SummaryTimes : StoreStartApp(app, t)
    \/ \E id \in 1..MaxRows, t \in SummaryTimes : StoreEnd(id, t)
    \/ \E t \in SummaryTimes : StoreSummary(t)

SpecSummary == InitSummary /\ [][NextSummary]_vars

\* the database file as a connection finds it
Database == [columns |-> columns, rows |-> rows]

\* a release before v0.5.0 records a session: the same INSERT, on the table
\* without active_secs and passive_secs
LegacyStart(title, t) ==
    /\ pc = "store"
    /\ columns = LegacyColumns
    /\ NextRowId(rows) <= MaxRows
    /\ rows' = Stored(start_activity(rows, "Brave", "Browser", title, t), columns)
    /\ now' = t
    /\ last' = [op |-> "start_activity", before |-> Database]
    /\ UNCHANGED <<pc, config, tz, fpLow, dbLock, columns, timer, current_session, is_tracking,
                   is_idle, idle_secs, queue, trayPc, sleep, calls, locks>>

\* and ends it: the same UPDATE
LegacyEnd(id, t) ==
    /\ pc = "store"
    /\ columns = LegacyColumns
    /\ id \in {r.id : r \in OpenRows(rows)}
    /\ rows' = end_activity(rows, id, t)
    /\ now' = t
    /\ last' = [op |-> "end_activity", before |-> Database]
    /\ UNCHANGED <<pc, config, tz, fpLow, dbLock, columns, timer, current_session, is_tracking,
                   is_idle, idle_secs, queue, trayPc, sleep, calls, locks>>

\* Storage::open(&Config::db_path())
Open ==
    /\ pc = "store"
    /\ columns' = open(Database).columns
    /\ rows' = open(Database).rows
    /\ last' = [op |-> "open", before |-> Database]
    /\ UNCHANGED <<pc, config, tz, fpLow, dbLock, timer, current_session, is_tracking,
                   is_idle, idle_secs, queue, trayPc, now, sleep, calls, locks>>

\* this release records a session in the store it has opened
MigratedStart(title, t) ==
    /\ has_active_secs(columns)
    /\ StoreStart(title, t)

MigratedEnd(id, t) ==
    /\ has_active_secs(columns)
    /\ StoreEnd(id, t)

\* a store of a release before v0.5.0, or no database file yet; then sessions
\* of that release, the first open by this one, and sessions of this one
InitMigrate ==
    /\ pc = "store"
    /\ config \in Configs
    /\ tz = 0
    /\ fpLow = {}
    /\ dbLock = NoLocks
    /\ columns \in {{}, LegacyColumns}
    /\ sleep = PollInterval
    /\ calls = NoCalls
    /\ locks = Unlocked
    /\ timer = new
    /\ rows = {}
    /\ current_session = None
    /\ is_tracking = TRUE
    /\ is_idle = FALSE
    /\ idle_secs = 0
    /\ queue = <<>>
    /\ trayPc = "menu"
    /\ now = 0
    /\ last = [op |-> "none", before |-> Database]

NextMigrate ==
    \/ \E title \in Titles, t \in DurationTimes : LegacyStart(title, t)
    \/ \E id \in 1..MaxRows, t \in DurationTimes : LegacyEnd(id, t)
    \/ Open
    \/ \E title \in Titles, t \in DurationTimes : MigratedStart(title, t)
    \/ \E id \in 1..MaxRows, t \in DurationTimes : MigratedEnd(id, t)

SpecMigrate == InitMigrate /\ [][NextMigrate]_vars

----------------------------------------------------------------------------
(* pomodoro.rs called through web.rs: the handlers of /api/pomodoro/... and *)
(* the task that calls tick() every second, on a timer built by            *)
(* with_durations                                                           *)

RunningStates == {"Working", "ShortBreak", "LongBreak"}

BreakStates == {"ShortBreak", "LongBreak"}

\* did the call take the timer into a break it was not in
EntersBreak(before, after) ==
    /\ after.state \in BreakStates
    /\ before.state = "Working"

\* the call made on the timer, the timer it found, and what went before it:
\* entered: on entering a break, the pomodoros completed since the previous
\*          long break (or since reset or construction), this one included;
\* since:   that count after the call;
\* run:     the ticks made since start_work with no other call between, and
\*          the completed count start_work found;
\* paused:  the timer this call paused, if it did;
\* resumed: for resume right after a pause that took effect, the timer that
\*          pause found
PomodoroEvent(op, after, done) ==
    LET count == IF op = "reset" THEN 0
                 ELSE IF done /\ timer.state = "Working" THEN last.since + 1
                 ELSE last.since
        enters == EntersBreak(timer, after)
    IN  [op |-> op, before |-> timer,
         entered |-> IF enters THEN Some(count) ELSE None,
         since |-> IF enters /\ after.state = "LongBreak" THEN 0 ELSE count,
         run |-> CASE op = "start_work" ->
                        Some([ticks |-> 0, completed |-> timer.completed_pomodoros])
                   [] op = "tick" /\ IsSome(last.run)
                               /\ Unwrap(last.run).ticks < timer.work_duration ->
                        Some([Unwrap(last.run) EXCEPT !.ticks = @ + 1])
                   [] OTHER -> None,
         paused |-> IF op = "pause" /\ timer.state \in RunningStates THEN Some(timer) ELSE None,
         resumed |-> IF op = "resume" THEN last.paused ELSE None]

Timer(op, after, done) ==
    /\ pc = "pomodoro"
    /\ timer' = after
    /\ last' = PomodoroEvent(op, after, done)
    /\ UNCHANGED <<pc, config, tz, fpLow, dbLock, columns, rows, current_session, is_tracking,
                   is_idle, idle_secs, queue, trayPc, now, sleep, calls, locks>>

\* POST /api/pomodoro/start
PomodoroStart == Timer("start_work", start_work(timer), FALSE)

\* POST /api/pomodoro/pause
PomodoroPause == Timer("pause", pause(timer), FALSE)

\* POST /api/pomodoro/resume
PomodoroResume == Timer("resume", resume(timer), FALSE)

\* POST /api/pomodoro/reset
PomodoroReset == Timer("reset", reset(timer), FALSE)

\* POST /api/pomodoro/skip
PomodoroSkip == Timer("skip", skip(timer), FALSE)

\* the tick task (web.rs 573-584); the completed count stays within MaxPomodoros
PomodoroTick ==
    /\ (timer.state = "Working" /\ timer.remaining_secs = 0)
            => timer.completed_pomodoros < MaxPomodoros
    /\ Timer("tick", tick(timer).timer, tick(timer).completed)

InitPomodoro ==
    /\ pc = "pomodoro"
    /\ config \in Configs
    /\ tz = 0
    /\ fpLow = {}
    /\ dbLock = NoLocks
    /\ columns = CurrentColumns
    /\ sleep = PollInterval
    /\ calls = NoCalls
    /\ locks = Unlocked
    /\ \E work_mins \in 1..MaxMins, short_break_mins \in 1..MaxMins, long_break_mins \in 1..MaxMins :
            timer = with_durations(work_mins, short_break_mins, long_break_mins)
    /\ rows = {}
    /\ current_session = None
    /\ is_tracking = TRUE
    /\ is_idle = FALSE
    /\ idle_secs = 0
    /\ queue = <<>>
    /\ trayPc = "menu"
    /\ now = 0
    /\ last = [op |-> "none", before |-> timer, entered |-> None, since |-> 0,
               run |-> None, paused |-> None, resumed |-> None]

NextPomodoro ==
    \/ PomodoroStart
    \/ PomodoroPause
    \/ PomodoroResume
    \/ PomodoroReset
    \/ PomodoroSkip
    \/ PomodoroTick

SpecPomodoro == InitPomodoro /\ [][NextPomodoro]_vars

----------------------------------------------------------------------------
(* The timer's methods step by step.  The handlers and the ticker are      *)
(* tasks of one multi-threaded runtime (#[tokio::main], main.rs 71), so    *)
(* they run in parallel; a method is atomic only where it holds a lock.    *)
(* A step is one await on a lock together with the code up to the next     *)
(* await, or one operation on an atomic.  A guard bound to a temporary     *)
(* (state.read() in tick, skip and get_state; state_before_pause and       *)
(* last_tick everywhere) is released at the end of its statement, within   *)
(* the step; the state write guard of start_work, start_break, pause,      *)
(* resume and reset is a local and is held until the method returns.       *)

ReleaseNothing(l, name) == l

\* a write guard is dropped
Release(l, name) == [l EXCEPT ![name] = None]

\* a write guard is obtained by task k
Acquire(l, name, k) == [l EXCEPT ![name] = Some(k)]

\* can the lock be taken, for reading or for writing
Free(name) == locks[name] = None

\* the call of task k returns r; last keeps what tick returned last
Return(k, r) ==
    /\ calls' = [calls EXCEPT ![k] = NoCall]
    /\ last' = IF calls[k].op = "tick" THEN [op |-> "tick", result |-> r] ELSE last

\* what a step leaves alone besides the timer, the calls, the locks and last
TimerFrame ==
    UNCHANGED <<pc, config, tz, fpLow, dbLock, columns, rows, current_session, is_tracking,
                is_idle, idle_secs, queue, trayPc, sleep>>

HandlerOps == {"start_work", "pause", "resume", "reset", "skip", "get_state"}

\* the first await or atomic operation of a method
Entry(op) ==
    CASE op \in {"tick", "skip", "get_state"} -> "state_read"
      [] OTHER -> "state_write"

\* task k calls a method: the ticker calls tick (web.rs 573-584), a handler the
\* method of its route (web.rs 526-566)
Call(k, op) ==
    /\ pc = "tasks"
    /\ calls[k].op = "none"
    /\ calls' = [calls EXCEPT ![k] = [NoCall EXCEPT !.op = op, !.fn = op, !.at = Entry(op)]]
    /\ UNCHANGED <<timer, locks, last, now>>
    /\ TimerFrame

\* interval.tick().await; POMODORO.tick().await (web.rs 577-581): the ticker's
\* next call, a second after the one before; now counts the seconds, up to
\* MaxTicks
CallTick ==
    /\ now < MaxTicks
    /\ now' = now + 1
    /\ pc = "tasks"
    /\ calls["ticker"].op = "none"
    /\ calls' = [calls EXCEPT !["ticker"] =
            [NoCall EXCEPT !.op = "tick", !.fn = "tick", !.at = Entry("tick")]]
    /\ UNCHANGED <<timer, locks, last>>
    /\ TimerFrame

\* the body that follows, once tick or skip has seen the state
AfterRead(call, state) ==
    CASE call.op = "tick" /\ state \in RunningStates ->
            [call EXCEPT !.seen = Some(state), !.at = "load"]
      [] call.op = "skip" /\ state = "Working" ->
            [call EXCEPT !.seen = Some(state), !.fn = "start_break", !.at = "break_load"]
      [] call.op = "skip" /\ state \in BreakStates ->
            [call EXCEPT !.seen = Some(state), !.fn = "start_work", !.at = "state_write"]
      [] OTHER -> NoCall

\* let state = *self.state.read().await (pomodoro.rs 139, 155, 184)
ReadState(k) ==
    /\ pc = "tasks"
    /\ calls[k].at = "state_read"
    /\ Free("state")
    /\ IF AfterRead(calls[k], timer.state) = NoCall
          THEN Return(k, IF calls[k].op = "tick" THEN Some(FALSE) ELSE None)
          ELSE /\ calls' = [calls EXCEPT ![k] = AfterRead(calls[k], timer.state)]
               /\ last' = last
    /\ UNCHANGED <<timer, locks>>
    /\ now' = now
    /\ TimerFrame

\* let remaining = self.remaining_secs.load(..) and the branch on it
\* (pomodoro.rs 161-168)
TickLoad(k) ==
    /\ pc = "tasks"
    /\ calls[k].at = "load"
    /\ calls' = [calls EXCEPT ![k] =
            IF timer.remaining_secs > 0 THEN [@ EXCEPT !.at = "sub"]
            ELSE IF calls[k].seen = Some("Working") THEN [@ EXCEPT !.at = "count"]
            ELSE [@ EXCEPT !.fn = "start_work", !.at = "state_write"]]
    /\ UNCHANGED <<timer, locks, last>>
    /\ now' = now
    /\ TimerFrame

\* 2^64 - 1, what fetch_sub leaves of 0
U64Max == "u64::MAX"

\* self.remaining_secs.fetch_sub(1, ..); false (pomodoro.rs 164-165)
TickSub(k) ==
    /\ pc = "tasks"
    /\ calls[k].at = "sub"
    /\ timer' = [timer EXCEPT !.remaining_secs = IF @ = 0 THEN U64Max ELSE @ - 1]
    /\ Return(k, Some(FALSE))
    /\ UNCHANGED locks
    /\ now' = now
    /\ TimerFrame

\* self.completed_pomodoros.fetch_add(1, ..) (pomodoro.rs 170); the count stays
\* within MaxPomodoros
TickCount(k) ==
    /\ pc = "tasks"
    /\ calls[k].at = "count"
    /\ timer.completed_pomodoros < MaxPomodoros
    /\ timer' = [timer EXCEPT !.completed_pomodoros = @ + 1]
    /\ calls' = [calls EXCEPT ![k] = [@ EXCEPT !.fn = "start_break", !.at = "break_load"]]
    /\ UNCHANGED <<locks, last>>
    /\ now' = now
    /\ TimerFrame

\* let completed = self.completed_pomodoros.load(..) as u32 (pomodoro.rs 97)
BreakLoad(k) ==
    /\ pc = "tasks"
    /\ calls[k].at = "break_load"
    /\ calls' = [calls EXCEPT ![k] =
            [@ EXCEPT !.completed = timer.completed_pomodoros, !.at = "state_write"]]
    /\ UNCHANGED <<timer, locks, last>>
    /\ now' = now
    /\ TimerFrame

\* what the body writes between obtaining the state write guard and its next
\* await (pomodoro.rs 90-91, 100-106, 131-133)
UnderStateLock(call, p) ==
    CASE call.fn = "start_work" ->
            [p EXCEPT !.state = "Working", !.remaining_secs = p.work_duration]
      [] call.fn = "start_break" /\ LongBreakDue(call.completed) ->
            [p EXCEPT !.state = "LongBreak", !.remaining_secs = p.long_break_duration]
      [] call.fn = "start_break" ->
            [p EXCEPT !.state = "ShortBreak", !.remaining_secs = p.short_break_duration]
      [] call.fn = "reset" ->
            [p EXCEPT !.state = "Idle", !.remaining_secs = p.work_duration,
                      !.completed_pomodoros = 0]
      [] OTHER -> p

\* does the body go on to a further await under the guard
GoesOn(call, p) ==
    CASE call.fn = "pause" -> p.state /= "Idle" /\ p.state /= "Paused"
      [] call.fn = "resume" -> p.state = "Paused"
      [] OTHER -> TRUE

\* let mut state = self.state.write().await (pomodoro.rs 89, 98, 112, 121, 130)
LockState(k) ==
    /\ pc = "tasks"
    /\ calls[k].at = "state_write"
    /\ Free("state")
    /\ timer' = UnderStateLock(calls[k], timer)
    /\ IF GoesOn(calls[k], timer)
          THEN /\ locks' = Acquire(locks, "state", k)
               /\ calls' = [calls EXCEPT ![k] =
                       [@ EXCEPT !.at = IF calls[k].fn \in {"pause", "resume"}
                                            THEN "before_pause" ELSE "last_tick"]]
               /\ last' = last
          ELSE /\ locks' = locks
               /\ Return(k, None)
    /\ now' = now
    /\ TimerFrame

\* *self.state_before_pause.write().await = *state; *state = Paused
\* (pomodoro.rs 114-115), and *state = *self.state_before_pause.read().await
\* (pomodoro.rs 123)
BeforePause(k) ==
    /\ pc = "tasks"
    /\ calls[k].at = "before_pause"
    /\ Free("state_before_pause")
    /\ IF calls[k].fn = "pause"
          THEN /\ timer' = [timer EXCEPT !.state_before_pause = timer.state,
                                          !.state = "Paused"]
               /\ locks' = Release(locks, "state")
               /\ Return(k, None)
          ELSE /\ timer' = [timer EXCEPT !.state = timer.state_before_pause]
               /\ locks' = locks
               /\ calls' = [calls EXCEPT ![k] = [@ EXCEPT !.at = "last_tick"]]
               /\ last' = last
    /\ now' = now
    /\ TimerFrame

\* *self.last_tick.write().await = ..., the last statement of start_work,
\* start_break, resume and reset (pomodoro.rs 92, 107, 124, 134); the state
\* guard is dropped on return
LastTick(k) ==
    /\ pc = "tasks"
    /\ calls[k].at = "last_tick"
    /\ Free("last_tick")
    /\ timer' = [timer EXCEPT !.last_tick = IF calls[k].fn = "reset" THEN None ELSE TickStamp]
    /\ locks' = Release(locks, "state")
    /\ Return(k, IF calls[k].op = "tick" THEN Some(TRUE) ELSE None)
    /\ now' = now
    /\ TimerFrame

\* a step of the call task k is in
Step(k) ==
    \/ ReadState(k)
    \/ TickLoad(k)
    \/ TickSub(k)
    \/ TickCount(k)
    \/ BreakLoad(k)
    \/ LockState(k)
    \/ BeforePause(k)
    \/ LastTick(k)

\* web.rs's POMODORO (PomodoroTimer::new()) idle, and in the last second of a
\* work session or of a break
TimersNearEnd ==
    {new}
    \cup {[start_work(new) EXCEPT !.remaining_secs = r] : r \in 0..1}
    \cup {[start_break(new) EXCEPT !.remaining_secs = r] : r \in 0..1}

InitTasks ==
    /\ pc = "tasks"
    /\ config \in Configs
    /\ tz = 0
    /\ fpLow = {}
    /\ dbLock = NoLocks
    /\ columns = CurrentColumns
    /\ sleep = PollInterval
    /\ calls = NoCalls
    /\ locks = Unlocked
    /\ timer \in TimersNearEnd
    /\ rows = {}
    /\ current_session = None
    /\ is_tracking = TRUE
    /\ is_idle = FALSE
    /\ idle_secs = 0
    /\ queue = <<>>
    /\ trayPc = "menu"
    /\ now = 0
    /\ last = [op |-> "none", result |-> None]

NextTasks ==
    \/ CallTick
    \/ \E k \in Handlers, op \in HandlerOps : Call(k, op)
    \/ \E k \in Tasks : ReadState(k)
    \/ \E k \in Tasks : TickLoad(k)
    \/ \E k \in Tasks : TickSub(k)
    \/ \E k \in Tasks : TickCount(k)
    \/ \E k \in Tasks : BreakLoad(k)
    \/ \E k \in Tasks : LockState(k)
    \/ \E k \in Tasks : BeforePause(k)
    \/ \E k \in Tasks : LastTick(k)

\* the runtime runs every task that can run, and a task waiting for a lock
\* gets it in its turn (tokio's RwLock queues its waiters)
SpecTasks ==
    /\ InitTasks
    /\ [][NextTasks]_vars
    /\ \A k \in Tasks : SF_vars(Step(k))

----------------------------------------------------------------------------
(* storage.rs behind the database file's locks: the tracker's connection   *)
(* writes while the presentation layers read over connections of their own *)
(* (web.rs opens one per request, tui.rs one per run).  Storage::open sets *)
(* no journal mode, so the file is in SQLite's default rollback-journal    *)
(* mode: a read in progress holds a SHARED lock, a write needs the         *)
(* EXCLUSIVE lock to commit and gets it only when no SHARED lock is held;  *)
(* while it waits no new read starts; when the connection's busy timeout   *)
(* runs out first, the write fails with SQLITE_BUSY.                       *)

\* the presentation layers' connections
Readers == {"web", "tui"}

\* PRAGMA journal_mode of the database file: Storage::open leaves the default
journal_mode == "delete"

\* must a write wait: in a rollback journal, for every read in progress
WriterWaits(lock) == journal_mode /= "wal" /\ lock.shared /= {}

\* may a read not start: in a rollback journal, while a write waits
ReadersBarred(lock) == journal_mode /= "wal" /\ IsSome(lock.writer)

\* the call made on the store and how it went: "ok", "blocked" (it waits for
\* readers), "ok_after_wait", "busy" (Err: the wait timed out)
LockEvent(op, outcome) == [op |-> op, before |-> rows, outcome |-> outcome]

InitLock ==
    /\ pc = "store"
    /\ config \in Configs
    /\ tz = 0
    /\ fpLow = {}
    /\ dbLock = NoLocks
    /\ columns = CurrentColumns
    /\ sleep = PollInterval
    /\ calls = NoCalls
    /\ locks = Unlocked
    /\ timer = new
    /\ rows = {}
    /\ current_session = None
    /\ is_tracking = TRUE
    /\ is_idle = FALSE
    /\ idle_secs = 0
    /\ queue = <<>>
    /\ trayPc = "menu"
    /\ now = 0
    /\ last = LockEvent("none", "ok")

\* a presentation layer's query starts: its connection takes a SHARED lock
ReadBegin(r) ==
    /\ pc = "store"
    /\ r \notin dbLock.shared
    /\ ~ReadersBarred(dbLock)
    /\ dbLock' = [dbLock EXCEPT !.shared = @ \cup {r}]
    /\ last' = LockEvent("read_begin", "ok")
    /\ UNCHANGED <<pc, config, tz, fpLow, columns, timer, rows, current_session, is_tracking, is_idle,
                   idle_secs, queue, trayPc, now, sleep, calls, locks>>

\* the query has returned its rows: the SHARED lock is dropped
ReadEnd(r) ==
    /\ pc = "store"
    /\ r \in dbLock.shared
    /\ dbLock' = [dbLock EXCEPT !.shared = @ \ {r}]
    /\ last' = LockEvent("read_end", "ok")
    /\ UNCHANGED <<pc, config, tz, fpLow, columns, timer, rows, current_session, is_tracking, is_idle,
                   idle_secs, queue, trayPc, now, sleep, calls, locks>>

\* what a write does to the table once it holds the EXCLUSIVE lock
Written(call) ==
    IF call.op = "start_activity"
        THEN start_activity(rows, "Brave", "Browser", call.title, call.t)
        ELSE end_activity(rows, call.id, call.t)

\* the tracker calls start_activity or end_activity: the statement commits at
\* once, or waits for the reads in progress
LockedWrite(call) ==
    /\ pc = "store"
    /\ dbLock.writer = None
    /\ now' = call.t
    /\ IF WriterWaits(dbLock)
          THEN /\ dbLock' = [dbLock EXCEPT !.writer = Some(call)]
               /\ last' = LockEvent(call.op, "blocked")
               /\ UNCHANGED rows
          ELSE /\ rows' = Written(call)
               /\ last' = LockEvent(call.op, "ok")
               /\ UNCHANGED dbLock
    /\ UNCHANGED <<pc, config, tz, fpLow, columns, timer, current_session, is_tracking, is_idle,
                   idle_secs, queue, trayPc, sleep, calls, locks>>

\* storage.start_activity(app_name, category, window_title)
LockedStart(title, t) ==
    /\ NextRowId(rows) <= MaxRows
    /\ LockedWrite([op |-> "start_activity", title |-> title, id |-> 0, t |-> t])

\* storage.end_activity(id), for the id of an open session
LockedEnd(id, t) ==
    /\ id \in {r.id : r \in OpenRows(rows)}
    /\ LockedWrite([op |-> "end_activity", title |-> <<>>, id |-> id, t |-> t])

\* the reads have finished within the busy timeout: the waiting write commits
WriteProceeds ==
    /\ pc = "store"
    /\ IsSome(dbLock.writer)
    /\ ~WriterWaits(dbLock)
    /\ rows' = Written(Unwrap(dbLock.writer))
    /\ dbLock' = [dbLock EXCEPT !.writer = None]
    /\ last' = LockEvent(Unwrap(dbLock.writer).op, "ok_after_wait")
    /\ UNCHANGED <<pc, config, tz, fpLow, columns, timer, current_session, is_tracking, is_idle,
                   idle_secs, queue, trayPc, now, sleep, calls, locks>>

\* the busy timeout runs out while a read is still in progress: the write
\* returns Err(SQLITE_BUSY) and nothing is written
WriteBusy ==
    /\ pc = "store"
    /\ IsSome(dbLock.writer)
    /\ WriterWaits(dbLock)
    /\ dbLock' = [dbLock EXCEPT !.writer = None]
    /\ last' = LockEvent(Unwrap(dbLock.writer).op, "busy")
    /\ UNCHANGED <<pc, config, tz, fpLow, columns, timer, rows, current_session, is_tracking, is_idle,
                   idle_secs, queue, trayPc, now, sleep, calls, locks>>

NextLock ==
    \/ \E r \in Readers : ReadBegin(r)
    \/ \E r \in Readers : ReadEnd(r)
    \/ \E title \in Titles, t \in DurationTimes : LockedStart(title, t)
    \/ \E id \in 1..MaxRows, t \in DurationTimes : LockedEnd(id, t)
    \/ WriteProceeds
    \/ WriteBusy

SpecLock == InitLock /\ [][NextLock]_vars

----------------------------------------------------------------------------
(* title_parser.rs: truncate *)

\* the one character U+2026
Ellipsis == "ellipsis"

\* max_len.saturating_sub(1)
saturating_sub(a, b) == IF a >= b THEN a - b ELSE 0

\* s.chars().take(n).collect()
take(s, n) == SubSeq(s, 1, IF n <= Len(s) THEN n ELSE Len(s))

\* fn truncate(s: &str, max_len: usize) -> String; a string is the sequence
\* of its characters, so Len is chars().count()
truncate(s, max_len) ==
    IF Len(s) <= max_len
        THEN s
        ELSE take(s, saturating_sub(max_len, 1)) \o <<Ellipsis>>

\* the strings of at most n characters over an alphabet
Strings(alphabet, n) == UNION {[1..k -> alphabet] : k \in 0..n}

TruncateInputs == Strings({"a", "b", "c"}, MaxLen)

InitTruncate ==
    /\ pc = "truncate"
    /\ config \in Configs
    /\ tz = 0
    /\ fpLow = {}
    /\ dbLock = NoLocks
    /\ columns = CurrentColumns
    /\ sleep = PollInterval
    /\ calls = NoCalls
    /\ locks = Unlocked
    /\ timer = new
    /\ rows = {}
    /\ current_session = None
    /\ is_tracking = TRUE
    /\ is_idle = FALSE
    /\ idle_secs = 0
    /\ queue = <<>>
    /\ trayPc = "menu"
    /\ now = 0
    /\ last = [op |-> "none", s |-> <<>>, max_len |-> 0, result |-> <<>>]

\* truncate(s, max_len)
Truncate(s, max_len) ==
    /\ pc = "truncate"
    /\ last' = [op |-> "truncate", s |-> s, max_len |-> max_len,
                result |-> truncate(s, max_len)]
    /\ UNCHANGED <<pc, config, tz, fpLow, dbLock, columns, timer, rows, current_session, is_tracking, is_idle,
                   idle_secs, queue, trayPc, now, sleep, calls, locks>>

NextTruncate == \E s \in TruncateInputs, max_len \in 0..(MaxLen + 1) : Truncate(s, max_len)

SpecTruncate == InitTruncate /\ [][NextTruncate]_vars

----------------------------------------------------------------------------
(* title_parser.rs: the regexes                                            *)
(*                                                                         *)
(* A title is a sequence of one-character strings.  A regex is a tree of   *)
(* nodes.  Run matches a list of nodes from a position and returns the     *)
(* first match a backtracking matcher finds: an optional part and a greedy *)
(* repetition take as much as lets the rest match, a lazy repetition as    *)
(* little, and alternatives are tried in the order written.  This is the   *)
(* match the regex crate reports (leftmost-first).                         *)

Lit(set) == [t |-> "lit", set |-> set]
NotLit(set) == [t |-> "notlit", set |-> set]
Dot == [t |-> "dot"]
Cat(rs) == [t |-> "seq", rs |-> rs]
Opt(r) == [t |-> "opt", r |-> r]
Star(r) == [t |-> "star", r |-> r]
Plus(r) == Cat(<<r, Star(r)>>)
LazyPlus(r) == [t |-> "lazyplus", r |-> r]
Cap(k, r) == [t |-> "cap", k |-> k, r |-> r]
CapStart(k) == [t |-> "capstart", k |-> k]
CapEnd(k) == [t |-> "capend", k |-> k]
Alt(rs) == [t |-> "alt", rs |-> rs]
AtStart == [t |-> "start"]
AtEnd == [t |-> "end"]

\* a matcher state: the characters consumed and the two capture groups
MatchState(pos) == [pos |-> pos, caps |-> <<None, None>>]

Advance(st, k) == [st EXCEPT !.pos = @ + k]

\* does the character belong to a one-character node (a class or the dot)
InClass(re, c) ==
    CASE re.t = "lit" -> c \in re.set
      [] re.t = "notlit" -> c \notin re.set
      [] re.t = "dot" -> TRUE

\* how many characters from pos on belong to the class
RunLength(re, s, pos) ==
    CHOOSE n \in 0..(Len(s) - pos) :
        /\ \A i \in 1..n : InClass(re, s[pos + i])
        /\ n = Len(s) - pos \/ ~InClass(re, s[pos + n + 1])

Largest(ks) == CHOOSE k \in ks : \A m \in ks : m <= k
Smallest(ks) == CHOOSE k \in ks : \A m \in ks : k <= m

RECURSIVE Run(_, _, _)
Run(rs, s, st) ==
    IF rs = <<>> THEN Some(st)
    ELSE LET re == Head(rs)
             rest == Tail(rs)
         IN  CASE re.t \in {"lit", "notlit", "dot"} ->
                    IF st.pos < Len(s) /\ InClass(re, s[st.pos + 1])
                        THEN Run(rest, s, Advance(st, 1)) ELSE None
               [] re.t = "start" -> IF st.pos = 0 THEN Run(rest, s, st) ELSE None
               [] re.t = "end" -> IF st.pos = Len(s) THEN Run(rest, s, st) ELSE None
               [] re.t = "seq" -> Run(re.rs \o rest, s, st)
               [] re.t = "opt" ->
                    LET taken == Run(<<re.r>> \o rest, s, st)
                    IN  IF IsSome(taken) THEN taken ELSE Run(rest, s, st)
               [] re.t = "alt" ->
                    LET tried == [i \in DOMAIN re.rs |-> Run(<<re.rs[i]>> \o rest, s, st)]
                        hits == {i \in DOMAIN re.rs : IsSome(tried[i])}
                    IN  IF hits = {} THEN None ELSE tried[Smallest(hits)]
               [] re.t = "star" ->
                    LET tried == [k \in 0..RunLength(re.r, s, st.pos) |->
                                     Run(rest, s, Advance(st, k))]
                        ks == {k \in DOMAIN tried : IsSome(tried[k])}
                    IN  IF ks = {} THEN None ELSE tried[Largest(ks)]
               [] re.t = "lazyplus" ->
                    LET tried == [k \in 1..RunLength(re.r, s, st.pos) |->
                                     Run(rest, s, Advance(st, k))]
                        ks == {k \in DOMAIN tried : IsSome(tried[k])}
                    IN  IF ks = {} THEN None ELSE tried[Smallest(ks)]
               [] re.t = "cap" -> Run(<<CapStart(re.k), re.r, CapEnd(re.k)>> \o rest, s, st)
               [] re.t = "capstart" ->
                    Run(rest, s, [st EXCEPT !.caps[re.k] = Some(<<st.pos, st.pos>>)])
               [] re.t = "capend" ->
                    Run(rest, s, [st EXCEPT !.caps[re.k] = Some(<<Unwrap(@)[1], st.pos>>)])

\* Regex::captures(s): the leftmost match, the first start position at which the
\* regex matches
captures(re, s) ==
    LET tried == [from \in 0..Len(s) |-> Run(<<re>>, s, MatchState(from))]
        starts == {from \in DOMAIN tried : IsSome(tried[from])}
    IN  IF starts = {} THEN None ELSE tried[Smallest(starts)]

\* caps.get(k).map(|m| m.as_str()): the text of a group, if it took part
get(caps, s, k) ==
    IF caps.caps[k] = None THEN None
    ELSE Some(SubSeq(s, Unwrap(caps.caps[k])[1] + 1, Unwrap(caps.caps[k])[2]))

\* Option::unwrap_or
unwrap_or(o, default) == IF IsSome(o) THEN Unwrap(o) ELSE default

RECURSIVE trim_start(_)
trim_start(s) == IF s /= <<>> /\ Head(s) = " " THEN trim_start(Tail(s)) ELSE s

RECURSIVE trim_end(_)
trim_end(s) ==
    IF s /= <<>> /\ s[Len(s)] = " " THEN trim_end(SubSeq(s, 1, Len(s) - 1)) ELSE s

\* str::trim
trim(s) == trim_end(trim_start(s))

\* \s; the titles of the model hold no other white space than " "
Ws == Lit({" "})

\* a word under (?i): each letter in either case
WordI(w) == Cat([i \in DOMAIN w |-> Lit({ToLowerChar(w[i]), ToUpperChar(w[i])})])

\* a word, letter for letter
Word(w) == Cat([i \in DOMAIN w |-> Lit({w[i]})])

Digits == {"0", "1", "2", "3", "4", "5", "6", "7", "8", "9"}

----------------------------------------------------------------------------
(* title_parser.rs: parse_teams_title *)

MicrosoftTeams == <<"M", "i", "c", "r", "o", "s", "o", "f", "t", " ", "T", "e", "a", "m", "s">>

\* (?:\(\d+\)\s*)?
UnreadMarker == Opt(Cat(<<Lit({"("}), Plus(Lit(Digits)), Lit({")"}), Star(Ws)>>))

TEAMS_CALL_RE ==
    Cat(<<AtStart, UnreadMarker,
          Alt(<<WordI(<<"C", "a", "l", "l">>), WordI(<<"M", "e", "e", "t", "i", "n", "g">>)>>),
          Star(Ws),
          Opt(Cat(<<WordI(<<"w", "i", "t", "h">>), Plus(Ws)>>)),
          Opt(Cat(<<Lit({"|"}), Star(Ws)>>)),
          Cap(1, LazyPlus(Dot)),
          Star(Ws),
          Alt(<<Lit({"|"}), AtEnd>>)>>)

TEAMS_CHAT_RE ==
    Cat(<<AtStart, UnreadMarker,
          WordI(<<"C", "h", "a", "t">>),
          Star(Ws), Lit({"|"}), Star(Ws),
          Cap(1, LazyPlus(Dot)),
          Star(Ws), Lit({"|"}), Star(Ws),
          WordI(MicrosoftTeams)>>)

TEAMS_CHANNEL_RE ==
    Cat(<<AtStart, UnreadMarker,
          Cap(1, LazyPlus(Dot)),
          Star(Ws), Lit({"|"}), Star(Ws),
          WordI(MicrosoftTeams)>>)

ParsedTitle(display, context_type, context) ==
    [display |-> display, context_type |-> context_type, context |-> context]

\* caps.get(k).map(|m| m.as_str().trim()).unwrap_or(default)
get_trimmed_or(caps, s, k, default) ==
    IF IsSome(get(caps, s, k)) THEN trim(Unwrap(get(caps, s, k))) ELSE default

TeamsCall(title, caps) ==
    LET person == get_trimmed_or(caps, title, 1, <<"U", "n", "k", "n", "o", "w", "n">>)
    IN  ParsedTitle(<<"C", "a", "l", "l", ":", " ">> \o truncate(person, 30), <<"c", "a", "l", "l">>, person)

TeamsChat(title, caps) ==
    LET person == get_trimmed_or(caps, title, 1, <<"U", "n", "k", "n", "o", "w", "n">>)
    IN  ParsedTitle(<<"C", "h", "a", "t", ":", " ">> \o truncate(person, 30), <<"c", "h", "a", "t">>, person)

TeamsChannel(title, caps) ==
    LET channel == get_trimmed_or(caps, title, 1, <<"T", "e", "a", "m", "s">>)
    IN  IF to_lowercase(channel) = <<"m", "i", "c", "r", "o", "s", "o", "f", "t", " ", "t", "e", "a", "m", "s">> \/ channel = <<>>
            THEN ParsedTitle(<<"T", "e", "a", "m", "s">>, <<"a", "p", "p">>, MicrosoftTeams)
            ELSE ParsedTitle(truncate(channel, 40), <<"c", "h", "a", "n", "n", "e", "l">>, channel)

TeamsFallback(title) == ParsedTitle(truncate(title, 40), <<"a", "p", "p">>, title)

\* the channel pattern tried before the call and chat patterns
parse_teams_title_channel_first(title) ==
    LET call == captures(TEAMS_CALL_RE, title)
        chat == captures(TEAMS_CHAT_RE, title)
        chan == captures(TEAMS_CHANNEL_RE, title)
    IN  IF IsSome(chan) THEN TeamsChannel(title, Unwrap(chan))
        ELSE IF IsSome(call) THEN TeamsCall(title, Unwrap(call))
        ELSE IF IsSome(chat) THEN TeamsChat(title, Unwrap(chat))
        ELSE TeamsFallback(title)

parse_teams_title(title) ==
    LET call == captures(TEAMS_CALL_RE, title)
        chat == captures(TEAMS_CHAT_RE, title)
        chan == captures(TEAMS_CHANNEL_RE, title)
    IN  IF IsSome(call) THEN TeamsCall(title, Unwrap(call))
        ELSE IF IsSome(chat) THEN TeamsChat(title, Unwrap(chat))
        ELSE IF IsSome(chan) THEN TeamsChannel(title, Unwrap(chan))
        ELSE TeamsFallback(title)

----------------------------------------------------------------------------
(* title_parser.rs: parse_terminal_title                                   *)
(*                                                                         *)
(* A character outside ASCII is a string naming it ("heavy_asterisk" is    *)
(* U+2731).  str::find returns a byte offset and a str is sliced at byte   *)
(* offsets, so the UTF-8 width of every character is kept; slicing off a   *)
(* character boundary or past the end panics.                              *)

DirtyMarks == {"heavy_asterisk", "*", "black_circle", "white_circle", "fisheye"}
Dashes == {"-", "en_dash", "em_dash"}
NonAscii == {"heavy_asterisk", "black_circle", "white_circle", "fisheye",
             "en_dash", "em_dash", Ellipsis}

len_utf8(c) == IF c \in NonAscii THEN 3 ELSE 1

RECURSIVE byte_len(_)
\* str::len
byte_len(s) == IF s = <<>> THEN 0 ELSE len_utf8(Head(s)) + byte_len(Tail(s))

\* the outcome of a call: a value, or a panic
Returned(v) == [panicked |-> FALSE, value |-> v]
Panicked == [panicked |-> TRUE, value |-> <<>>]

\* &s[from..]
slice_from(s, from) ==
    IF \E k \in 0..Len(s) : byte_len(SubSeq(s, 1, k)) = from
        THEN LET k == CHOOSE k \in 0..Len(s) : byte_len(SubSeq(s, 1, k)) = from
             IN  Returned(SubSeq(s, k + 1, Len(s)))
        ELSE Panicked

\* str::find(char): the byte offset of the first occurrence
find_char(s, c) ==
    IF \E k \in DOMAIN s : s[k] = c
        THEN LET k == CHOOSE k \in DOMAIN s : s[k] = c /\ \A m \in 1..(k - 1) : s[m] /= c
             IN  Some(byte_len(SubSeq(s, 1, k - 1)))
        ELSE None

RECURSIVE trim_start_matches(_, _)
\* str::trim_start_matches over a set of characters
trim_start_matches(s, set) ==
    IF s /= <<>> /\ Head(s) \in set THEN trim_start_matches(Tail(s), set) ELSE s

starts_with(s, prefix) == Len(s) >= Len(prefix) /\ SubSeq(s, 1, Len(prefix)) = prefix

ends_with(s, suffix) ==
    Len(s) >= Len(suffix) /\ SubSeq(s, Len(s) - Len(suffix) + 1, Len(s)) = suffix

RECURSIVE first_word(_)
\* the leading run of characters other than white space
first_word(s) == IF s = <<>> \/ Head(s) = " " THEN <<>> ELSE <<Head(s)>> \o first_word(Tail(s))

RECURSIVE split_whitespace(_)
\* str::split_whitespace, collected
split_whitespace(s) ==
    LET rest == trim_start(s)
        word == first_word(rest)
    IN  IF rest = <<>> THEN <<>>
        ELSE <<word>> \o split_whitespace(SubSeq(rest, Len(word) + 1, Len(rest)))

\* Iterator::nth(n).unwrap_or(default), n counted from 0
nth_or(items, n, default) == IF n < Len(items) THEN items[n + 1] ELSE default

\* (?:^|/)([^/]+)$
PATH_RE == Cat(<<Alt(<<AtStart, Lit({"/"})>>), Cap(1, Plus(NotLit({"/"}))), AtEnd>>)

Folder(text, caps) ==
    LET folder == unwrap_or(get(caps, text, 1), text)
    IN  ParsedTitle(<<"F", "o", "l", "d", "e", "r", ":", " ">> \o folder, <<"f", "o", "l", "d", "e", "r">>, folder)

Editing(file, caps) ==
    LET filename == unwrap_or(get(caps, file, 1), file)
    IN  ParsedTitle(<<"E", "d", "i", "t", "i", "n", "g", ":", " ">> \o filename, <<"f", "i", "l", "e">>, filename)

\* title.trim().trim_start_matches([...]).trim()
TerminalCleaned(title) == trim(trim_start_matches(trim(title), DirtyMarks))

\* the editor pattern and the fallback (title_parser.rs 124-142)
TerminalEditorOrFallback(cleaned) ==
    LET file == nth_or(split_whitespace(cleaned), 1, <<>>)
        caps == captures(PATH_RE, file)
    IN  IF (starts_with(cleaned, <<"n", "v", "i", "m", " ">>) \/ starts_with(cleaned, <<"v", "i", "m", " ">>)) /\ IsSome(caps)
            THEN Editing(file, Unwrap(caps))
            ELSE ParsedTitle(truncate(cleaned, 40), <<"t", "e", "r", "m", "i", "n", "a", "l">>, cleaned)

\* the "user@host: path" pattern and what follows it (title_parser.rs 109-142);
\* step is the distance from the colon's offset to the start of the path
TerminalUserHost(cleaned, step) ==
    IF contains(cleaned, <<"@">>) /\ contains(cleaned, <<":">>) /\ IsSome(find_char(cleaned, ":"))
        THEN LET sliced == slice_from(cleaned, Unwrap(find_char(cleaned, ":")) + step)
             IN  IF sliced.panicked THEN Panicked
                 ELSE LET path == trim(sliced.value)
                          caps == captures(PATH_RE, path)
                      IN  IF IsSome(caps) THEN Returned(Folder(path, Unwrap(caps)))
                          ELSE Returned(TerminalEditorOrFallback(cleaned))
        ELSE Returned(TerminalEditorOrFallback(cleaned))

TerminalWith(title, step) ==
    LET cleaned == TerminalCleaned(title)
        caps == captures(PATH_RE, cleaned)
    IN  IF (starts_with(cleaned, <<"~">>) \/ starts_with(cleaned, <<"/">>)) /\ IsSome(caps)
            THEN Returned(Folder(cleaned, Unwrap(caps)))
            ELSE TerminalUserHost(cleaned, step)

\* the path sliced two bytes after the colon's offset
parse_terminal_title_skip_two(title) == TerminalWith(title, 2)

parse_terminal_title(title) == TerminalWith(title, 1)

----------------------------------------------------------------------------
(* title_parser.rs: parse_browser_title *)

RECURSIVE trim_end_matches(_, _)
\* str::trim_end_matches(&str): the suffix removed as often as it repeats
trim_end_matches(s, suffix) ==
    IF ends_with(s, suffix)
        THEN trim_end_matches(SubSeq(s, 1, Len(s) - Len(suffix)), suffix) ELSE s

RECURSIVE replace(_, _, _)
\* str::replace: the occurrences found from left to right, not overlapping
replace(s, from, to) ==
    IF Len(s) < Len(from) THEN s
    ELSE IF starts_with(s, from)
        THEN to \o replace(SubSeq(s, Len(from) + 1, Len(s)), from, to)
        ELSE <<Head(s)>> \o replace(Tail(s), from, to)

\* ^(.+?)\s*[-en em]\s*(.+?)(?:\s*[-en em]\s*(?:Brave|Chrome|Firefox|Edge))?$
BROWSER_SITE_RE ==
    Cat(<<AtStart,
          Cap(1, LazyPlus(Dot)),
          Star(Ws), Lit(Dashes), Star(Ws),
          Cap(2, LazyPlus(Dot)),
          Opt(Cat(<<Star(Ws), Lit(Dashes), Star(Ws),
                    Alt(<<Word(<<"B", "r", "a", "v", "e">>), Word(<<"C", "h", "r", "o", "m", "e">>),
                          Word(<<"F", "i", "r", "e", "f", "o", "x">>), Word(<<"E", "d", "g", "e">>)>>)>>)),
          AtEnd>>)

\* the title trimmed and without the browser's suffix (title_parser.rs 147-155)
BrowserCleaned(title) ==
    trim(trim_end_matches(
            trim_end_matches(
                trim_end_matches(
                    trim_end_matches(trim(title), <<" ", "-", " ", "B", "r", "a", "v", "e">>),
                    <<" ", "-", " ", "G", "o", "o", "g", "l", "e", " ", "C", "h", "r", "o", "m", "e">>),
                <<" ", "-", " ", "F", "i", "r", "e", "f", "o", "x">>),
            <<" ", "-", " ", "M", "i", "c", "r", "o", "s", "o", "f", "t", " ", "E", "d", "g", "e">>))

BrowserYouTube(cleaned) ==
    LET video_title ==
            trim(replace(
                    replace(trim_start_matches(cleaned, {"(", ")", " "} \cup Digits),
                            <<"Y", "o", "u", "T", "u", "b", "e">>, <<>>),
                    <<"-", " ", "Y", "o", "u", "T", "u", "b", "e">>, <<>>))
    IN  IF video_title = <<>> \/ video_title = <<"-">>
            THEN ParsedTitle(<<"Y", "o", "u", "T", "u", "b", "e">>, <<"w", "e", "b", "s", "i", "t", "e">>, <<"y", "o", "u", "t", "u", "b", "e", ".", "c", "o", "m">>)
            ELSE ParsedTitle(<<"Y", "T", ":", " ">> \o truncate(video_title, 35), <<"v", "i", "d", "e", "o">>, video_title)

BrowserGeneric(cleaned) ==
    LET caps == captures(BROWSER_SITE_RE, cleaned)
    IN  IF IsSome(caps)
            THEN ParsedTitle(truncate(unwrap_or(get(Unwrap(caps), cleaned, 1), <<>>), 40),
                             <<"w", "e", "b", "s", "i", "t", "e">>,
                             unwrap_or(get(Unwrap(caps), cleaned, 2), cleaned))
            ELSE ParsedTitle(truncate(cleaned, 40), <<"w", "e", "b", "s", "i", "t", "e">>, cleaned)

parse_browser_title(title) ==
    LET cleaned == BrowserCleaned(title)
        lower == to_lowercase(cleaned)
    IN  IF contains(lower, <<"y", "o", "u", "t", "u", "b", "e">>) THEN BrowserYouTube(cleaned)
        ELSE IF contains(lower, <<"g", "i", "t", "h", "u", "b">>)
            THEN ParsedTitle(<<"G", "i", "t", "H", "u", "b", ":", " ">> \o truncate(cleaned, 30), <<"c", "o", "d", "e">>, cleaned)
        ELSE IF contains(lower, <<"s", "t", "a", "c", "k", " ", "o", "v", "e", "r", "f", "l", "o", "w">>)
            THEN LET question == replace(cleaned, <<" ", "-", " ", "S", "t", "a", "c", "k", " ", "O", "v", "e", "r", "f", "l", "o", "w">>, <<>>)
                 IN  ParsedTitle(<<"S", "O", ":", " ">> \o truncate(question, 35), <<"r", "e", "s", "e", "a", "r", "c", "h">>, question)
        ELSE IF contains(lower, <<"g", "m", "a", "i", "l">>) \/ contains(lower, <<"i", "n", "b", "o", "x">>)
                \/ contains(lower, <<"m", "a", "i", "l">>)
            THEN ParsedTitle(<<"E", "m", "a", "i", "l">>, <<"e", "m", "a", "i", "l">>, cleaned)
        ELSE IF contains(lower, <<"c", "h", "a", "t", "g", "p", "t">>) \/ contains(lower, <<"c", "l", "a", "u", "d", "e", ".", "a", "i">>)
            THEN ParsedTitle(<<"A", "I", " ", "A", "s", "s", "i", "s", "t", "a", "n", "t">>, <<"a", "i">>, cleaned)
        ELSE IF contains(lower, <<"d", "o", "c", "s", ".", "g", "o", "o", "g", "l", "e">>) \/ contains(lower, <<"s", "h", "e", "e", "t", "s", ".", "g", "o", "o", "g", "l", "e">>)
                \/ contains(lower, <<"s", "l", "i", "d", "e", "s", ".", "g", "o", "o", "g", "l", "e">>)
            THEN ParsedTitle(<<"D", "o", "c", "s", ":", " ">> \o truncate(cleaned, 30), <<"d", "o", "c", "u", "m", "e", "n", "t">>, cleaned)
        ELSE BrowserGeneric(cleaned)

----------------------------------------------------------------------------
(* title_parser.rs: parse_title *)

parse_title_teams_by_name(app_name, category, title) ==
    LET cat == to_lowercase(category)
    IN  IF contains(to_lowercase(app_name), <<"t", "e", "a", "m", "s">>)
            THEN Returned(parse_teams_title(title))
        ELSE IF cat = <<"t", "e", "r", "m", "i", "n", "a", "l">> THEN parse_terminal_title(title)
        ELSE IF cat = <<"b", "r", "o", "w", "s", "e", "r">> THEN Returned(parse_browser_title(title))
        ELSE Returned(ParsedTitle(truncate(title, 40), cat, title))

parse_title(app_name, category, title) ==
    LET cat == to_lowercase(category)
    IN  IF cat = <<"c", "o", "m", "m", "u", "n", "i", "c", "a", "t", "i", "o", "n">>
            THEN IF contains(to_lowercase(app_name), <<"t", "e", "a", "m", "s">>)
                    THEN Returned(parse_teams_title(title))
                    ELSE Returned(ParsedTitle(truncate(title, 40), <<"c", "o", "m", "m", "u", "n", "i", "c", "a", "t", "i", "o", "n">>, title))
        ELSE IF cat = <<"t", "e", "r", "m", "i", "n", "a", "l">> THEN parse_terminal_title(title)
        ELSE IF cat = <<"b", "r", "o", "w", "s", "e", "r">> THEN Returned(parse_browser_title(title))
        ELSE Returned(ParsedTitle(truncate(title, 40), cat, title))

----------------------------------------------------------------------------
(* parse_title applied to titles built from the words and marks its        *)
(* patterns look for, and to long titles around the truncation limits      *)

RECURSIVE Concat(_)
Concat(ts) == IF ts = <<>> THEN <<>> ELSE Head(ts) \o Concat(Tail(ts))

\* the texts made of at most n of the tokens
Phrases(tokens, n) == {Concat(ts) : ts \in Strings(tokens, n)}

Filler(n) == [i \in 1..n |-> "x"]

\* a run of plain characters of a length next to a truncation limit (30, 35, 40),
\* between two tokens
LongPhrases(tokens) ==
    {a \o Filler(n) \o b : a \in tokens \cup {<<>>}, b \in tokens \cup {<<>>},
                           n \in {30, 31, 35, 36, 40, 41}}

TeamsTokens ==
    {<<"(", "2", ")", " ">>, <<"C", "a", "l", "l", " ">>, <<"w", "i", "t", "h", " ">>, <<"C", "h", "a", "t", " ", "|", " ">>,
     <<" ", "|", " ", "M", "i", "c", "r", "o", "s", "o", "f", "t", " ", "T", "e", "a", "m", "s">>,
     <<"M", "i", "c", "r", "o", "s", "o", "f", "t", " ", "T", "e", "a", "m", "s">>, <<" ">>, <<"x">>}

\* the title of the chat scenario
ChatScenario ==
    <<"(", "2", ")", " ", "C", "h", "a", "t", " ", "|", " ", "J", "a", "n", "e", " ", "D", "o", "e">>
        \o <<" ", "|", " ", "M", "i", "c", "r", "o", "s", "o", "f", "t", " ", "T", "e", "a", "m", "s">>

TerminalTokens ==
    {<<"heavy_asterisk">>, <<"~">>, <<"/">>, <<"@">>, <<":">>, <<" ">>, <<"v", "i", "m", " ">>, <<"x">>}

BrowserTokens ==
    {<<" ", "-", " ", "B", "r", "a", "v", "e">>, <<"Y", "o", "u", "T", "u", "b", "e">>, <<"(", "5", ")", " ">>, <<" ", "-", " ">>, <<"en_dash">>, <<"G", "i", "t", "H", "u", "b">>,
     <<"S", "t", "a", "c", "k", " ", "O", "v", "e", "r", "f", "l", "o", "w">>, <<"x">>}

PlainTokens == {<<"x">>, <<" ">>}

\* pieces of Teams, terminal and browser titles, for apps of other categories
OtherTokens ==
    {<<"C", "a", "l", "l", " ">>, <<"w", "i", "t", "h", " ">>,
     <<" ", "|", " ", "M", "i", "c", "r", "o", "s", "o", "f", "t", " ", "T", "e", "a", "m", "s">>,
     <<"@">>, <<":">>, <<" ", "-", " ">>, <<"x">>}

TitlesOf(tokens) == Phrases(tokens, MaxTokens) \cup LongPhrases(tokens)

\* the calls made: app name, category, title
ParseInputs ==
    ({<<"T", "e", "a", "m", "s">>, <<"S", "l", "a", "c", "k">>}
        \X {<<"C", "o", "m", "m", "u", "n", "i", "c", "a", "t", "i", "o", "n">>}
        \X (TitlesOf(TeamsTokens) \cup {ChatScenario}))
    \cup ({<<"G", "h", "o", "s", "t", "t", "y">>} \X {<<"T", "e", "r", "m", "i", "n", "a", "l">>}
            \X TitlesOf(TerminalTokens))
    \cup ({<<"B", "r", "a", "v", "e">>} \X {<<"B", "r", "o", "w", "s", "e", "r">>}
            \X TitlesOf(BrowserTokens))
    \cup ({<<"C", "o", "d", "e">>} \X {<<"D", "e", "v", "e", "l", "o", "p", "m", "e", "n", "t">>}
            \X TitlesOf(PlainTokens))
    \cup ({<<"T", "e", "a", "m", "s">>} \X {<<"B", "r", "o", "w", "s", "e", "r", "s">>}
            \X TitlesOf(OtherTokens))

InitParse ==
    /\ pc = "parse"
    /\ config \in Configs
    /\ tz = 0
    /\ fpLow = {}
    /\ dbLock = NoLocks
    /\ columns = CurrentColumns
    /\ sleep = PollInterval
    /\ calls = NoCalls
    /\ locks = Unlocked
    /\ timer = new
    /\ rows = {}
    /\ current_session = None
    /\ is_tracking = TRUE
    /\ is_idle = FALSE
    /\ idle_secs = 0
    /\ queue = <<>>
    /\ trayPc = "menu"
    /\ now = 0
    /\ last = [op |-> "none", app_name |-> <<>>, category |-> <<>>, title |-> <<>>,
               result |-> Panicked]

\* parse_title(app_name, category, title)
ParseTitle(app_name, category, title) ==
    /\ pc = "parse"
    /\ last' = [op |-> "parse_title", app_name |-> app_name, category |-> category,
                title |-> title, result |-> parse_title(app_name, category, title)]
    /\ UNCHANGED <<pc, config, tz, fpLow, dbLock, columns, timer, rows, current_session, is_tracking, is_idle,
                   idle_secs, queue, trayPc, now, sleep, calls, locks>>

\* one call is made
NextParse ==
    /\ last.op = "none"
    /\ \E call \in ParseInputs : ParseTitle(call[1], call[2], call[3])

SpecParse == InitParse /\ [][NextParse]_vars

----------------------------------------------------------------------------
(* Claims *)

RowIds(rs) == {r.id : r \in rs}

\* row id was open in before and is closed at the current clock reading in after,
\* its other columns kept
Closed(before, after, id) ==
    \E r \in before, c \in after :
        /\ r.id = id /\ c.id = id
        /\ r.ended_at = None /\ c.ended_at = Some(now)
        /\ c.app_name = r.app_name /\ c.category = r.category
        /\ c.window_title = r.window_title /\ c.started_at = r.started_at

\* every row of before that was already closed is in after as it was
ClosedRowsKept(before, after) == \A r \in before : IsSome(r.ended_at) => r \in after

\* the session the loop held is closed, none is current, no row was added
SessionClosed(b) ==
    /\ current_session = None
    /\ OpenRows(rows) = {}
    /\ RowIds(rows) = RowIds(b.rows)
    /\ ClosedRowsKept(b.rows, rows)
    /\ \A r \in OpenRows(b.rows) : Closed(b.rows, rows, r.id)
    /\ IsSome(b.current_session) => Closed(b.rows, rows, Unwrap(b.current_session))

\* C1: once the startup sweep has run, the activity table holds at most one
\* row whose ended_at is null, whatever ticks and commands follow.
C1_AtMostOneOpenRow ==
    pc \in {"running", "stopped", "failed"} => Cardinality(OpenRows(rows)) <= 1

\* a tick has closed one session and opened the next: two rows, one open
C1_Witness ==
    /\ pc = "running"
    /\ last.op = "tick" /\ last.branch = "new_session"
    /\ IsSome(last.before.current_session)
    /\ Cardinality(rows) >= 2
    /\ Cardinality(OpenRows(rows)) = 1

\* C2: when close_open_sessions has returned Ok, no row has ended_at null,
\* however many were open before; the control loop therefore starts with no
\* open row and no current session.
C2_SweepClosesAll ==
    (pc = "running" /\ last.op = "startup") =>
        /\ OpenRows(rows) = {}
        /\ current_session = None

\* the sweep has closed two orphaned rows at once
C2_Witness ==
    /\ pc = "running" /\ last.op = "startup"
    /\ \E r1 \in rows, r2 \in rows :
        /\ r1.id /= r2.id
        /\ r1.started_at = 0 /\ r2.started_at = 1
        /\ r1.ended_at = Some(now) /\ r2.ended_at = Some(now)
        /\ now > 1

\* the pattern occurs in the field when letter case is ignored
CISubstring(pattern, field) ==
    \E off \in 0..(Len(field) - Len(pattern)) :
        \A k \in 1..Len(pattern) :
            ToLowerChar(field[off + k]) = ToLowerChar(pattern[k])

\* the field a rule looks at: the title for WindowTitle, the class otherwise
ApplicableField(app, w) ==
    IF app.match_type = "WindowTitle" THEN w.window_title ELSE w.window_class

MatchingRules(apps, w) ==
    {i \in DOMAIN apps : CISubstring(apps[i].pattern, ApplicableField(apps[i], w))}

\* C3: match_window returns the first rule, in declaration order, whose
\* pattern is a case-insensitive substring of its applicable field, and None
\* exactly when no rule is; a later matching rule never wins over an earlier one.
C3_FirstMatchingRule ==
    last.op = "match_window" =>
        LET w == Unwrap(last.window)
            hits == MatchingRules(config.apps, w)
        IN  IF hits = {}
                THEN last.result = None
                ELSE /\ IsSome(last.result)
                     /\ \E i \in hits :
                          /\ \A j \in hits : i <= j
                          /\ Unwrap(last.result) = config.apps[i]

\* two rules match, the pattern of the first differs in case from the field,
\* and the first one is returned
C3_Witness ==
    /\ last.op = "match_window"
    /\ MatchingRules(config.apps, Unwrap(last.window)) = {1, 2}
    /\ config.apps[1].pattern = <<"a", "B">>
    /\ Unwrap(last.window).window_class = <<"A", "b">>
    /\ config.apps[1].match_type = "WindowClass"
    /\ last.result = Some(config.apps[1])

\* the last event was a tick taken while tracking was on
TrackingTick == last.op = "tick" /\ last.tracking

\* the last event was a tracking tick whose idle reading did not exceed the
\* timeout and whose window probe returned a snapshot
ClassifyingTick ==
    /\ TrackingTick
    /\ Unwrap(last.idle) <= config.idle_timeout_secs
    /\ IsSome(last.window)

\* the first rule, in declaration order, that matches the snapshot of the last tick
FirstHit ==
    LET hits == MatchingRules(config.apps, Unwrap(last.window))
    IN  config.apps[CHOOSE i \in hits : \A j \in hits : i <= j]

\* the last tick saw a window that some rule matches
MatchedTick ==
    /\ ClassifyingTick
    /\ MatchingRules(config.apps, Unwrap(last.window)) /= {}

\* the tick has inserted exactly one row, open, for the matched app with the
\* title it observed, and made it the current session
OpenedFor(b, m, w) ==
    \E n \in rows :
        /\ n.id \notin RowIds(b.rows)
        /\ n.app_name = m.name /\ n.category = m.category
        /\ n.window_title = w.window_title
        /\ n.started_at = now /\ n.ended_at = None
        /\ current_session = Some(n.id)
        /\ OpenRows(rows) = {n}
        /\ RowIds(rows) = RowIds(b.rows) \cup {n.id}
        /\ \A c \in rows \ {n} : IsSome(c.ended_at) /\ Unwrap(c.ended_at) <= n.started_at

\* C4: on a tick taken while tracking is on, an idle reading strictly above
\* idle_timeout_secs closes the open session (if any), sets the idle flag,
\* leaves the window probe unqueried and opens no session; a reading at or
\* below the timeout clears the idle flag and goes on to query the window.
C4_IdleBranch ==
    TrackingTick =>
        IF Unwrap(last.idle) > config.idle_timeout_secs
            THEN /\ is_idle
                 /\ idle_secs = Unwrap(last.idle)
                 /\ ~last.probed
                 /\ SessionClosed(last.before)
            ELSE /\ ~is_idle
                 /\ idle_secs = 0
                 /\ last.probed

\* the probe read 301 s against a timeout of 300 s while a session was open
C4_Witness ==
    /\ TrackingTick
    /\ config.idle_timeout_secs = 300
    /\ last.idle = Some(301)
    /\ IsSome(last.before.current_session)
    /\ is_idle /\ current_session = None

\* C5: on a tracking, non-idle tick where a rule matches and no session is
\* open or the open one belongs to another app, the open session (if any) is
\* closed first, then exactly one new open row is inserted with the matched
\* app's name and category and the window title observed in this tick, and it
\* becomes the current session.
C5_NewSession ==
    (/\ MatchedTick
     /\ \A r \in OpenRows(last.before.rows) : r.app_name /= FirstHit.name) =>
        /\ \A r \in OpenRows(last.before.rows) : Closed(last.before.rows, rows, r.id)
        /\ ClosedRowsKept(last.before.rows, rows)
        /\ OpenedFor(last.before, FirstHit, Unwrap(last.window))

\* a session of another app was open: it is closed and the matched app's opened
C5_Witness ==
    /\ MatchedTick
    /\ \E r \in OpenRows(last.before.rows) :
          /\ r.app_name /= FirstHit.name
          /\ last.before.current_session = Some(r.id)
          /\ Closed(last.before.rows, rows, r.id)
    /\ \E n \in OpenRows(rows) : n.app_name = FirstHit.name /\ current_session = Some(n.id)

C7_UnmatchedCloses ==
    (/\ ClassifyingTick
     /\ MatchingRules(config.apps, Unwrap(last.window)) = {}) =>
        SessionClosed(last.before)

\* an unmatched window came into focus while a session was open
C7_Witness ==
    /\ ClassifyingTick
    /\ MatchingRules(config.apps, Unwrap(last.window)) = {}
    /\ IsSome(last.before.current_session)
    /\ OpenRows(last.before.rows) /= {}
    /\ OpenRows(rows) = {}

\* C8: a tick taken while tracking is paused changes nothing: rows, current
\* session id, idle flag and idle seconds are as before, and neither the idle
\* probe nor the window probe is queried.
C8_PausedTickNoOp ==
    (last.op = "tick" /\ ~last.tracking) =>
        /\ rows = last.before.rows
        /\ current_session = last.before.current_session
        /\ is_idle = last.before.is_idle
        /\ idle_secs = last.before.idle_secs
        /\ last.idle = None
        /\ ~last.probed

\* a tick ran after the Pause click and before the loop took the command:
\* the session is still open
C8_Witness ==
    /\ last.op = "tick" /\ ~last.tracking
    /\ IsSome(current_session)
    /\ OpenRows(rows) /= {}
    /\ queue = <<"Pause">>

\* C9: handling Pause closes the open session (if any) and clears the current
\* session id; a tick taken while tracking is paused opens no session;
\* handling Resume leaves the store alone, and once tracking is on again the
\* first non-idle tick that sees a matching app with no session open opens a
\* new session for it.
C9_PauseResume ==
    /\ (last.op = "pause" /\ last.branch = "done") => SessionClosed(last.before)
    /\ (last.op = "tick" /\ ~last.tracking) =>
          /\ RowIds(rows) = RowIds(last.before.rows)
          /\ OpenRows(rows) \subseteq OpenRows(last.before.rows)
    /\ last.op = "resume" =>
          /\ rows = last.before.rows
          /\ current_session = last.before.current_session
    /\ (MatchedTick /\ last.before.current_session = None) =>
          OpenedFor(last.before, FirstHit, Unwrap(last.window))

\* Pause has closed a session, Resume is sent and not yet taken by the loop,
\* and the tick has already opened a new session for the same app
C9_Witness ==
    /\ MatchedTick
    /\ last.before.current_session = None
    /\ queue = <<"Resume">>
    /\ is_tracking
    /\ \E r \in last.before.rows : r.app_name = FirstHit.name /\ IsSome(r.ended_at)
    /\ \E n \in OpenRows(rows) : n.app_name = FirstHit.name /\ current_session = Some(n.id)

\* C10: when the loop has taken Quit or Ctrl+C, the open session (if any) is
\* closed before the loop exits: a stopped daemon leaves no row with ended_at
\* null, from paused and idle states as well.
C10_StoppedNoOpenRow ==
    pc = "stopped" =>
        /\ last.op \in {"quit", "ctrl_c"}
        /\ OpenRows(rows) = {}
        /\ RowIds(rows) = RowIds(last.before.rows)
        /\ ClosedRowsKept(last.before.rows, rows)
        /\ IsSome(last.before.current_session) =>
              Closed(last.before.rows, rows, Unwrap(last.before.current_session))

\* Ctrl+C arrived while paused with the session still open (Pause clicked,
\* command not yet taken): the row is closed
C10_Witness ==
    /\ pc = "stopped" /\ last.op = "ctrl_c"
    /\ ~is_tracking
    /\ IsSome(last.before.current_session)
    /\ OpenRows(last.before.rows) /= {}
    /\ OpenRows(rows) = {}

\* C11: a tick whose window probe fails leaves the loop running and the store
\* rows and the current session id exactly as they were (an open session stays
\* open, none is opened); a tick whose idle probe fails computes idle time 0
\* and is therefore not idle: the flag is cleared and the window is probed.
\* (Every reading xprintidle yields here is above 0, so an idle time of 0 is
\* a failed probe.)
C11_ProbeFailureNonFatal ==
    /\ (TrackingTick /\ last.probed /\ last.window = None) =>
          /\ pc = "running"
          /\ rows = last.before.rows
          /\ current_session = last.before.current_session
    /\ (TrackingTick /\ last.idle = Some(0)) =>
          /\ pc = "running"
          /\ ~is_idle /\ idle_secs = 0
          /\ last.probed

\* both probes failed in a tick taken with a session open: it is still open
C11_Witness ==
    /\ TrackingTick
    /\ last.idle = Some(0)
    /\ last.probed /\ last.window = None
    /\ IsSome(current_session)
    /\ \E r \in OpenRows(rows) : current_session = Some(r.id) /\ r \in last.before.rows

\* C12: when a store write fails in a handler of the control loop
\* (end_activity or start_activity returns Err), the error propagates and the
\* loop terminates, and at that termination no row is left with ended_at null.
C12_FailedWriteLeavesNoOpenRow ==
    (last.op \in {"tick", "pause", "quit", "ctrl_c"} /\ last.branch = "error") =>
        /\ pc = "failed"
        /\ OpenRows(rows) = {}

\* the instant of local midnight of the day the clock reads, under the offset in force
LocalMidnight == now - ((now + tz * UnitsPerSec) % UnitsPerDay)

\* the instant lies in [local midnight, local midnight + 24h)
StartedToday(r) ==
    /\ LocalMidnight <= r.started_at
    /\ r.started_at < LocalMidnight + UnitsPerDay

\* C13: reset_today deletes exactly the rows whose started_at lies in
\* [local midnight of today, local midnight + 24h), open or closed, and leaves
\* every other row unchanged, whatever UTC offset a row was recorded with.
C13_ResetDeletesExactlyToday ==
    last.op = "reset_today" =>
        rows = {r \in last.before : ~StartedToday(r)}

\* C14: end_activity never stores a negative duration_secs, whatever the
\* clock reads at the call, a reading before started_at included.
C14_DurationNeverNegative ==
    last.op = "end_activity" =>
        \A r \in rows : r.id = Unwrap(last.result) => r.duration_secs >= 0

\* the whole seconds in a difference of clock readings
WholeSecs(d, secs) ==
    IF d >= 0 THEN secs * UnitsPerSec <= d /\ d < (secs + 1) * UnitsPerSec
    ELSE (-secs) * UnitsPerSec <= -d /\ -d < (1 - secs) * UnitsPerSec

\* C15: every closed row has duration_secs = ended_at - started_at in whole
\* seconds, whether end_activity or the sweep close_open_sessions closed it.
C15_DurationIsWholeSecondDelta ==
    \A r \in rows :
        IsSome(r.ended_at) =>
            WholeSecs(Unwrap(r.ended_at) - r.started_at, r.duration_secs)

\* today's rows of one app under one title
TodayGroup(app_name, window_title) ==
    {r \in rows : StartedToday(r) /\ r.app_name = app_name /\ r.window_title = window_title}

ContextTypes ==
    {<<"c", "a", "l", "l">>, <<"c", "h", "a", "t">>, <<"c", "h", "a", "n", "n", "e", "l">>, <<"a", "p", "p">>, <<"c", "o", "m", "m", "u", "n", "i", "c", "a", "t", "i", "o", "n">>, <<"f", "o", "l", "d", "e", "r">>, <<"f", "i", "l", "e">>,
     <<"t", "e", "r", "m", "i", "n", "a", "l">>, <<"w", "e", "b", "s", "i", "t", "e">>, <<"v", "i", "d", "e", "o">>, <<"c", "o", "d", "e">>, <<"r", "e", "s", "e", "a", "r", "c", "h">>, <<"e", "m", "a", "i", "l">>, <<"a", "i">>,
     <<"d", "o", "c", "u", "m", "e", "n", "t">>}

\* a text: a finite sequence of characters, each a non-empty string
IsText(s) == DOMAIN s = 1..Len(s) /\ \A i \in DOMAIN s : s[i] /= ""

\* the context type of the last branch of the parser a category and app name select
FallbackType(app_name, category) ==
    LET cat == to_lowercase(category)
    IN  IF cat = <<"c", "o", "m", "m", "u", "n", "i", "c", "a", "t", "i", "o", "n">>
            THEN IF contains(to_lowercase(app_name), <<"t", "e", "a", "m", "s">>) THEN <<"a", "p", "p">> ELSE <<"c", "o", "m", "m", "u", "n", "i", "c", "a", "t", "i", "o", "n">>
        ELSE IF cat = <<"t", "e", "r", "m", "i", "n", "a", "l">> THEN <<"t", "e", "r", "m", "i", "n", "a", "l">>
        ELSE IF cat = <<"b", "r", "o", "w", "s", "e", "r">> THEN <<"w", "e", "b", "s", "i", "t", "e">>
        ELSE cat

\* C18: parse_title is total. Every call, whatever the app name, category and
\* title, returns a ParsedTitle and does not panic: display, context type and
\* context are texts, the context type is one a parser gives or the lowercased
\* category, and the empty title comes back through the last (fallback) branch of
\* the parser its category selects, with an empty display.
C18_ParseTitleTotal ==
    last.op = "parse_title" =>
        /\ ~last.result.panicked
        /\ IsText(last.result.value.display)
        /\ IsText(last.result.value.context)
        /\ last.result.value.context_type \in ContextTypes \cup {to_lowercase(last.category)}
        /\ last.title = <<>> =>
                /\ last.result.value.context_type = FallbackType(last.app_name, last.category)
                /\ last.result.value.display = <<>>

\* a terminal title "user@host:" with nothing after the colon has been parsed: the
\* path is sliced at the very end of the text
C18_Witness ==
    /\ last.op = "parse_title"
    /\ to_lowercase(last.category) = <<"t", "e", "r", "m", "i", "n", "a", "l">>
    /\ last.title = <<"x", "@", ":">>
    /\ ~last.result.panicked
    /\ last.result.value.context_type = <<"t", "e", "r", "m", "i", "n", "a", "l">>

\* the positions at which an unread marker "(digits)" and white space after it end
MarkerEnds(title) ==
    {k \in 3..Len(title) :
        \E j \in 3..k :
            /\ title[1] = "("
            /\ \A i \in 2..(j - 1) : title[i] \in Digits
            /\ title[j] = ")"
            /\ \A i \in (j + 1)..k : title[i] = " "}

\* the title, and the title after a leading unread marker
Remainders(title) ==
    {title} \cup {SubSeq(title, k + 1, Len(title)) : k \in MarkerEnds(title)}

StartsWithCI(s, w) ==
    Len(s) >= Len(w) /\ to_lowercase(SubSeq(s, 1, Len(w))) = to_lowercase(w)

\* white space from position from on, then Microsoft Teams in any case
TeamsFollows(r, from) ==
    \E q \in (from - 1)..Len(r) :
        /\ \A i \in from..q : r[i] = " "
        /\ StartsWithCI(SubSeq(r, q + 1, Len(r)), MicrosoftTeams)

\* (a) Call or Meeting after the optional marker, and something after it
CallShape(title) ==
    \E r \in Remainders(title), w \in {<<"C", "a", "l", "l">>, <<"M", "e", "e", "t", "i", "n", "g">>} :
        StartsWithCI(r, w) /\ Len(r) > Len(w)

\* (b) Chat | name | Microsoft Teams after the optional marker
ChatShape(title) ==
    \E r \in Remainders(title) :
        /\ StartsWithCI(r, <<"C", "h", "a", "t">>)
        /\ \E p1 \in 5..Len(r), p2 \in 5..Len(r) :
                /\ \A i \in 5..(p1 - 1) : r[i] = " "
                /\ r[p1] = "|"
                /\ p2 >= p1 + 2
                /\ r[p2] = "|"
                /\ TeamsFollows(r, p2 + 1)

\* (c) name | Microsoft Teams after the optional marker
ChannelShape(title) ==
    \E r \in Remainders(title) :
        \E p \in 2..Len(r) : r[p] = "|" /\ TeamsFollows(r, p + 1)

IsTeams(app_name) == contains(to_lowercase(app_name), <<"t", "e", "a", "m", "s">>)

\* what the ordered heuristics (a), (b), (c) decide for a title that one of them
\* matches
HeuristicDecides(title, parsed) ==
    /\ CallShape(title) =>
            /\ parsed.context_type = <<"c", "a", "l", "l">>
            /\ parsed.display = <<"C", "a", "l", "l", ":", " ">> \o truncate(parsed.context, 30)
            /\ contains(title, parsed.context)
    /\ ~CallShape(title) /\ ChatShape(title) =>
            /\ parsed.context_type = <<"c", "h", "a", "t">>
            /\ parsed.display = <<"C", "h", "a", "t", ":", " ">> \o truncate(parsed.context, 30)
            /\ contains(title, parsed.context)
    /\ ~CallShape(title) /\ ~ChatShape(title) /\ ChannelShape(title) =>
            \/ /\ parsed.context_type = <<"c", "h", "a", "n", "n", "e", "l">>
               /\ parsed.context /= <<>>
               /\ to_lowercase(parsed.context) /= to_lowercase(MicrosoftTeams)
               /\ parsed.display = truncate(parsed.context, 40)
               /\ contains(title, parsed.context)
            \/ /\ parsed.context_type = <<"a", "p", "p">>
               /\ parsed.display = <<"T", "e", "a", "m", "s">>
               /\ parsed.context = MicrosoftTeams
    /\ title = ChatScenario =>
            parsed.context_type = <<"c", "h", "a", "t">> /\ contains(parsed.display, <<"J", "a", "n", "e", " ", "D", "o", "e">>)

NoHeuristicMatches(title) == ~CallShape(title) /\ ~ChatShape(title) /\ ~ChannelShape(title)

CommunicationCall ==
    last.op = "parse_title" /\ to_lowercase(last.category) = <<"c", "o", "m", "m", "u", "n", "i", "c", "a", "t", "i", "o", "n">>

\* C19 as stated: for category Communication the heuristics call/meeting, chat,
\* channel are applied in that order and the first that matches decides the context
\* type; a title matching none of them gets context type "communication" and the
\* title truncated to 40 characters as display.
C19_AsStated ==
    CommunicationCall =>
        /\ ~last.result.panicked
        /\ HeuristicDecides(last.title, last.result.value)
        /\ NoHeuristicMatches(last.title) =>
                /\ last.result.value.context_type = <<"c", "o", "m", "m", "u", "n", "i", "c", "a", "t", "i", "o", "n">>
                /\ last.result.value.display = truncate(last.title, 40)

\* C19, amended: the heuristics are applied, in the order call/meeting, chat,
\* channel, when the app name contains "teams" in any case, and then a title
\* matching none of them gets context type "app" with the title truncated to 40
\* characters as display. For every other app of category Communication no
\* heuristic is applied: the context type is "communication" and the display is the
\* title truncated to 40 characters.
C19_CommunicationHeuristics ==
    CommunicationCall =>
        /\ ~last.result.panicked
        /\ IsTeams(last.app_name) =>
                /\ HeuristicDecides(last.title, last.result.value)
                /\ NoHeuristicMatches(last.title) =>
                        /\ last.result.value.context_type = <<"a", "p", "p">>
                        /\ last.result.value.display = truncate(last.title, 40)
                        /\ last.result.value.context = last.title
        /\ ~IsTeams(last.app_name) =>
                /\ last.result.value.context_type = <<"c", "o", "m", "m", "u", "n", "i", "c", "a", "t", "i", "o", "n">>
                /\ last.result.value.display = truncate(last.title, 40)
                /\ last.result.value.context = last.title

\* a Teams title of more than 40 characters that no heuristic matches has been
\* parsed: its context type is "app"
C19_Witness ==
    /\ CommunicationCall
    /\ IsTeams(last.app_name)
    /\ NoHeuristicMatches(last.title)
    /\ Len(last.title) > 40
    /\ ~last.result.panicked
    /\ last.result.value.context_type = <<"a", "p", "p">>
    /\ Len(last.result.value.display) = 40

\* C20: the tracker's writes (start_activity, end_activity) are never blocked or
\* made to fail by reads the presentation layers have in progress on connections
\* of their own: no write waits while a reader holds its lock, no write ends
\* blocked or with SQLITE_BUSY, and a presentation layer's access changes no row.
C20_ReadersNeverBlockWrites ==
    /\ ~(IsSome(dbLock.writer) /\ dbLock.shared /= {})
    /\ last.op \in {"start_activity", "end_activity"} => last.outcome \notin {"blocked", "busy"}
    /\ last.op \in {"read_begin", "read_end"} => rows = last.before

----------------------------------------------------------------------------
\* the row r of a store without the two columns, as the migration must leave it
Migrated(r) ==
    [c \in DOMAIN r \cup {"active_secs", "passive_secs"} |->
        CASE c = "active_secs" -> IF r.duration_secs > 0 THEN r.duration_secs ELSE 0
          [] c = "passive_secs" -> 0
          [] OTHER -> r[c]]

----------------------------------------------------------------------------
\* C22: a closed row is immutable: whatever the loop handles (a tick, a tray
\* command, Ctrl+C, the recovery sweep at startup), every row that was closed
\* before is in the table afterwards with every column as it was; the reset
\* command only removes rows, and changes none that it keeps.
C22_ClosedRowsImmutable ==
    /\ last.op \notin {"none", "reset"} => ClosedRowsKept(last.before.rows, rows)
    /\ last.op = "reset" => rows \subseteq last.before.rows

\* the loop has ended a session while the table held a closed row
C22_Witness ==
    /\ last.op \notin {"none", "reset", "startup"}
    /\ \E r \in last.before.rows : IsSome(r.ended_at)
    /\ \E r \in last.before.rows, c \in rows :
            r.id = c.id /\ r.ended_at = None /\ IsSome(c.ended_at)

----------------------------------------------------------------------------
\* C23: for every closed row active_secs + passive_secs equals duration_secs,
\* and so the hourly totals the web API serves (active_secs + passive_secs per
\* hour, from get_today_hourly_detailed) are the hourly totals of
\* get_today_hourly (duration_secs per hour).
C23_ActivePassiveReconcile ==
    /\ \A r \in rows :
            IsSome(r.ended_at) => r.active_secs + r.passive_secs = r.duration_secs
    /\ {[hour |-> h.hour, total_secs |-> h.secs] : h \in hourly_stats(get_today_hourly_detailed(rows, now))}
            = get_today_hourly(rows, now)

----------------------------------------------------------------------------
\* C30: update_activity_time(id, a, p) adds a to active_secs and p to
\* passive_secs of row id and changes no other row; started_at, ended_at and
\* with them whether the session is open are as before; and a call with
\* (a1, p1) followed by one with (a2, p2) leaves what one call with
\* (a1 + a2, p1 + p2) leaves.
C30_UpdateIsAdditive ==
    /\ last.op = "update_activity_time" =>
          /\ RowIds(rows) = RowIds(last.before)
          /\ \A r \in last.before : \E u \in rows :
                /\ u.id = r.id
                /\ u.started_at = r.started_at /\ u.started_off = r.started_off
                /\ u.ended_at = r.ended_at
                /\ u.app_name = r.app_name /\ u.category = r.category
                /\ u.window_title = r.window_title
                /\ IF r.id = last.result.id
                      THEN /\ u.active_secs = r.active_secs + last.result.active_delta
                           /\ u.passive_secs = r.passive_secs + last.result.passive_delta
                      ELSE u = r
          /\ \A a2 \in Deltas, p2 \in Deltas :
                update_activity_time(rows, last.result.id, a2, p2)
                    = update_activity_time(last.before, last.result.id,
                                           last.result.active_delta + a2,
                                           last.result.passive_delta + p2)

\* a second update has just added to the counters of a row, beside another row
C30_Witness ==
    /\ last.op = "update_activity_time"
    /\ last.result.active_delta > 0
    /\ \E r \in last.before : r.id = last.result.id /\ r.active_secs > 0
    /\ \E r \in last.before : r.id /= last.result.id

----------------------------------------------------------------------------
\* C24: after start_work on a timer that had completed no pomodoro, calling
\* tick() as many times as the work duration has seconds leaves the timer in
\* a break (ShortBreak or LongBreak) with completed_pomodoros = 1.
C24_TicksCompleteWork ==
    (/\ IsSome(last.run)
     /\ Unwrap(last.run).ticks = timer.work_duration
     /\ Unwrap(last.run).completed = 0)
        => /\ timer.state \in BreakStates
           /\ timer.completed_pomodoros = 1

----------------------------------------------------------------------------
\* C25: pause() in a running state s (Working, ShortBreak, LongBreak) moves
\* the timer to Paused, and a resume() that follows returns it to s, with
\* remaining_secs and completed_pomodoros as pause() found them; pause() in
\* Idle or Paused and resume() in any state but Paused change nothing.
C25_PauseResume ==
    /\ (last.op = "pause" /\ last.before.state \in RunningStates)
          => /\ timer.state = "Paused"
             /\ timer.remaining_secs = last.before.remaining_secs
             /\ timer.completed_pomodoros = last.before.completed_pomodoros
    /\ (last.op = "resume" /\ IsSome(last.resumed))
          => /\ timer.state = Unwrap(last.resumed).state
             /\ timer.remaining_secs = Unwrap(last.resumed).remaining_secs
             /\ timer.completed_pomodoros = Unwrap(last.resumed).completed_pomodoros
    /\ (last.op = "pause" /\ last.before.state \in {"Idle", "Paused"}) => timer = last.before
    /\ (last.op = "resume" /\ last.before.state /= "Paused") => timer = last.before

\* a short break under way has been paused and resumed
C25_Witness ==
    /\ last.op = "resume"
    /\ IsSome(last.resumed)
    /\ Unwrap(last.resumed).state = "ShortBreak"
    /\ Unwrap(last.resumed).remaining_secs < Unwrap(last.resumed).short_break_duration
    /\ timer.state = "ShortBreak"

----------------------------------------------------------------------------
\* C26: a break that is entered is a LongBreak, with long_break_duration
\* remaining, exactly when 4 pomodoros have been completed since the previous
\* long break (or since reset or construction); otherwise it is a ShortBreak
\* with short_break_duration remaining.
C26_LongBreakEveryFour ==
    IsSome(last.entered)
        => IF Unwrap(last.entered) = POMODOROS_UNTIL_LONG_BREAK
              THEN /\ timer.state = "LongBreak"
                   /\ timer.remaining_secs = timer.long_break_duration
              ELSE /\ timer.state = "ShortBreak"
                   /\ timer.remaining_secs = timer.short_break_duration

----------------------------------------------------------------------------
\* the rule with match type Process turned into WindowClass, the rest as it is
AsWindowClass(app) ==
    IF app.match_type = "Process" THEN [app EXCEPT !.match_type = "WindowClass"] ELSE app

----------------------------------------------------------------------------
\* the local day a row was started on, as a day number
StartedOn(r) == (r.started_at + tz * UnitsPerSec) \div UnitsPerDay

\* C28: get_week_summary reports per-day totals over the last 7 days only: at
\* most 7 distinct days, each one of the 7 calendar days that end today, each
\* with the sum of duration_secs of the rows started on that local day.
C28_WeekIsSevenDays ==
    last.op = "get_week_summary" =>
        /\ Cardinality({e.day : e \in last.result}) <= WeekDays
        /\ \A e \in last.result :
              /\ LocalDate(now) - (WeekDays - 1) <= e.day
              /\ e.day <= LocalDate(now)
              /\ e.total = SumColumn({r \in rows : StartedOn(r) = e.day}, "duration_secs")

----------------------------------------------------------------------------
RECURSIVE SumTotals(_)
SumTotals(v) == IF v = <<>> THEN 0 ELSE Head(v).total_secs + SumTotals(Tail(v))

----------------------------------------------------------------------------
----------------------------------------------------------------------------
\* C37: Storage::open on a store that already has the active_secs and
\* passive_secs columns leaves every row as it was; in particular a session
\* recorded after the migration with active_secs = 0 and duration_secs > 0 is
\* not backfilled by a later open.
C37_OpenIdempotent ==
    (last.op = "open" /\ "active_secs" \in last.before.columns)
        => /\ rows = last.before.rows
           /\ columns = last.before.columns

\* a migrated store holding a closed session of this release, active_secs 0
\* and a positive duration, has been opened again
C37_Witness ==
    /\ last.op = "open"
    /\ last.before.columns = CurrentColumns
    /\ \E r \in rows : r.active_secs = 0 /\ r.duration_secs > 0

----------------------------------------------------------------------------
\* the categories parse_title has a parser for
ParsedCategories ==
    {<<"c", "o", "m", "m", "u", "n", "i", "c", "a", "t", "i", "o", "n">>,
     <<"t", "e", "r", "m", "i", "n", "a", "l">>, <<"b", "r", "o", "w", "s", "e", "r">>}

\* C34: for a category that is none of Communication, Terminal and Browser,
\* whatever its case, parse_title passes the title through: display is the
\* title cut to 40 characters (the title itself when it has at most 40, else
\* its first 39 and an ellipsis), contextType is the lowercased category and
\* context is the title.
C34_OtherCategoryPassThrough ==
    (last.op = "parse_title" /\ to_lowercase(last.category) \notin ParsedCategories)
        => /\ ~last.result.panicked
           /\ last.result.value.display =
                 (IF Len(last.title) <= 40 THEN last.title
                  ELSE SubSeq(last.title, 1, 39) \o <<Ellipsis>>)
           /\ Len(last.result.value.display) <= 40
           /\ last.result.value.context_type = to_lowercase(last.category)
           /\ last.result.value.context = last.title

\* the title of a Teams call, of the app Teams filed under Browsers, has come
\* back as it is
C34_Witness ==
    /\ last.op = "parse_title"
    /\ last.category = <<"B", "r", "o", "w", "s", "e", "r", "s">>
    /\ last.title = <<"C", "a", "l", "l", " ", "w", "i", "t", "h", " ", "x">>
    /\ last.result.value.display = last.title
    /\ last.result.value.context_type = <<"b", "r", "o", "w", "s", "e", "r", "s">>

\* a title of more than 40 characters has been cut
C34_WitnessLong ==
    /\ last.op = "parse_title"
    /\ to_lowercase(last.category) \notin ParsedCategories
    /\ Len(last.title) = 41
    /\ Len(last.result.value.display) = 40

----------------------------------------------------------------------------
\* C35: at every loop-iteration boundary of the running tracker the in-memory
\* session id and the store agree: the id is Some(i) iff row i exists with
\* ended_at null and is the row get_active_session returns, and the id is
\* None iff the store has no open row; so the row need_new_session looks at
\* and the row that gets closed are the same row.
C35_SessionIdAgreesWithStore ==
    pc = "running" =>
        IF IsSome(current_session)
            THEN /\ \E r \in OpenRows(rows) : r.id = Unwrap(current_session)
                 /\ \A r \in get_active_session(rows) : r.id = Unwrap(current_session)
            ELSE OpenRows(rows) = {}

----------------------------------------------------------------------------
\* C31: the window/idle probe is issued off the control loop's thread: while
\* a probe call is in flight, a Pause, Resume or Quit command that has arrived
\* can be handled by the loop.
C31_CommandsHandledDuringProbe ==
    (pc = "probing" /\ queue /= <<>>) => ENABLED HandleCommand

----------------------------------------------------------------------------
\* has the Pause that follows the latest clearing of is_tracking been handled
PauseHandled ==
    /\ trayPc /= "Pause"
    /\ \A i \in DOMAIN queue : queue[i] /= "Pause"

\* a step that opens a session
OpensSession == OpenRows(rows') \ OpenRows(rows) /= {}

\* C36: for every interleaving of the tray thread (clear is_tracking, then
\* enqueue Pause) with the loop: once the flag is cleared only the tick
\* already in progress can still open a session and no further tick starts
\* probing; handling a Pause leaves no row open; and from the handling of the
\* queued Pause until is_tracking is set again no row is open, no session is
\* held and no probe is in flight.
C36_PauseRace ==
    /\ [][(~is_tracking /\ OpensSession) => pc = "probing"]_vars
    /\ [][(~is_tracking /\ pc' = "probing") => pc = "probing"]_vars
    /\ []((last.op = "pause" /\ last.branch = "done")
            => (OpenRows(rows) = {} /\ current_session = None))
    /\ []((TrayAlive /\ ~is_tracking /\ PauseHandled)
            => (OpenRows(rows) = {} /\ current_session = None /\ pc /= "probing"))

\* the tick that was in its probe when the tray cleared is_tracking has opened
\* a session, and the Pause is still to be handled
C36_Witness ==
    /\ last.op = "tick"
    /\ last.branch = "new_session"
    /\ "cleared" \in DOMAIN last
    /\ last.cleared
    /\ ~is_tracking
    /\ ~PauseHandled
    /\ IsSome(current_session)

\* that session has been closed by the Pause
C36_WitnessClosed ==
    /\ last.op = "pause"
    /\ IsSome(last.before.current_session)
    /\ ~is_tracking
    /\ PauseHandled
    /\ OpenRows(rows) = {}

----------------------------------------------------------------------------
\* C32: ticks fire at the fixed poll interval regardless of command traffic:
\* handling a command does not restart or postpone the pending tick, so while
\* the tracker runs a tick occurs again and again, also when commands keep
\* arriving more often than once per poll interval.
C32_TicksDespiteCommands ==
    /\ [][(pc = "running" /\ pc' = "running" /\ queue /= <<>> /\ queue' = Tail(queue))
            => sleep' = sleep]_vars
    /\ []<>(pc /= "running" \/ last.op = "tick")

\* the second half of C32 on its own
C32_TickRecurs == []<>(pc /= "running" \/ last.op = "tick")

----------------------------------------------------------------------------
\* the timer is Paused and no handler is inside resume, start_work, skip or
\* reset
PausedQuiet ==
    /\ timer.state = "Paused"
    /\ \A k \in Handlers : calls[k].op \notin {"resume", "start_work", "skip", "reset"}

\* the ticker's tick() copies Idle or Paused out of the state lock
TickSeesStopped ==
    /\ calls["ticker"].at = "state_read"
    /\ calls'["ticker"] /= calls["ticker"]
    /\ timer.state \in {"Idle", "Paused"}

C38_StoppedTickIsNoOp ==
    [][TickSeesStopped => /\ timer' = timer
                          /\ calls'["ticker"] = NoCall
                          /\ last'.result = Some(FALSE)]_vars

----------------------------------------------------------------------------
\* the locks task k holds
Held(k) == {name \in DOMAIN locks : locks[name] = Some(k)}

\* state is taken first: a task awaits state holding nothing, and awaits
\* state_before_pause or last_tick holding state and nothing else
LockOrder ==
    \A k \in Tasks :
        /\ calls[k].at \in {"state_read", "state_write", "out", "load", "sub", "count",
                             "break_load"} => Held(k) = {}
        /\ calls[k].at \in {"before_pause", "last_tick"} => Held(k) = {"state"}

\* some task that is inside a method can take its next step
SomeCallCanStep ==
    (\E k \in Tasks : calls[k].op /= "none")
        => \E k \in Tasks : calls[k].op /= "none" /\ ENABLED Step(k)

\* C39: no interleaving of concurrent Pomodoro operations (start_work,
\* start_break, pause, resume, reset, skip, tick, get_state) deadlocks: the
\* state, state_before_pause and last_tick locks are taken in one order, some
\* call in progress can always step, and every call eventually returns (each
\* task is outside every method again and again).
C39_NoDeadlock ==
    /\ []LockOrder
    /\ []SomeCallCanStep
    /\ \A k \in Tasks : []<>(calls[k].op = "none")

\* a handler waits for the state lock while the ticker, inside start_break,
\* holds it
C39_Witness ==
    /\ calls["ticker"].fn = "start_break"
    /\ locks.state = Some("ticker")
    /\ \E k \in Handlers : calls[k].at = "state_write"
    /\ \E k \in Handlers : calls[k].at = "state_read"

====
